---- MODULE Spec2Model ----
(***************************************************************************)
(* The upload ingestion and metadata consistency pipeline of the freehold  *)
(* document sharing backend: FileController / FileService / S3Service /    *)
(* FileMetadataService / FileSecurityService.logFileOperation.             *)
(*                                                                         *)
(* Every HTTP request is a run.  A run advances one awaited call at a      *)
(* time, so the runs interleave exactly at the awaits of the handlers.     *)
(* Calls that touch no shared state are folded into the step that follows. *)
(* The route middleware has authenticated the caller before a handler      *)
(* runs, and reads of the metadata database are taken to succeed.          *)
(***************************************************************************)
EXTENDS Integers, Sequences, FiniteSets, TLC

(* ------------------------------ bounds -------------------------------- *)

MaxRuns == 2

Runs == 1..MaxRuns

(* ------------------------- program constants -------------------------- *)

MB == 1024 * 1024

MAX_FILE_SIZE == 50 * 1024 * 1024

MAX_TOTAL_SIZE_PER_USER == 500 * 1024 * 1024

presignedUrlExpires == 900

(* ------------------------------ inputs -------------------------------- *)

Users == {"u1", "u2"}

NoFile == [size |-> 0, secValid |-> FALSE, formOk |-> FALSE, present |-> FALSE]

(* An uploaded file: its byte size, the verdict of                         *)
(* FileSecurityService.validateFile on its bytes, name and declared type,  *)
(* and whether its type, extension and name pass the checks of             *)
(* FileMetadataService.validateFile.                                       *)
File(size, secValid, formOk) ==
  [size |-> size, secValid |-> secValid, formOk |-> formOk, present |-> TRUE]

Files ==
  { File(10 * MB, TRUE, TRUE),
    File(20 * MB, TRUE, TRUE),
    File(60 * MB, TRUE, TRUE),
    File(10 * MB, FALSE, TRUE),
    File(10 * MB, TRUE, FALSE),
    NoFile }

(* An error message is represented by the set of the phrases the handlers  *)
(* search for (String.prototype.includes) that occur in it.                *)
includes(message, phrase) == phrase \in message

(* Messages of the errors the AWS SDK raises, and of database errors.      *)
AwsMessages == { {}, {"not found"} }

DbMessages == { {} }

(* ----------------------------- the state ------------------------------ *)

VARIABLES
  objects,     \* keys of the objects present in the S3 bucket
  documents,   \* rows of the documents table
  categories,  \* ids of the rows of the categories table
  auditLog,    \* records written by logFileOperation
  run,         \* per request: position, locals, response, calls made
  limiter,     \* authRateLimit: the attempts map, the clock, what was served
  client       \* the web client: token storage, refresh manager, requests

vars == <<objects, documents, categories, auditLog, run, limiter, client>>

(* NULL in a column, undefined in a request.                               *)
Null == "none"

(* The categories inserted by the migration stand for the table's rows.    *)
DefaultCategories == {"c1", "c2"}

(* The metadata the controller derives from the security validation.       *)
SecurityMetadata(file) == [validated |-> file.secValid]

(* securityMetadata where no validation has passed.                        *)
NoSecurityMetadata == [validated |-> FALSE]

(* A PUT /api/files/:id body in which no field is given.                   *)
NoUpdates ==
  [fileName |-> Null, categoryId |-> Null, description |-> Null,
   tags |-> Null]

NoKey == [owner |-> "none", uuid |-> 0]

NoRow ==
  [id |-> 0, s3Key |-> NoKey, uploadedBy |-> "none", fileSize |-> 0,
   fileName |-> Null, categoryId |-> Null, description |-> Null,
   tags |-> <<>>, securityMetadata |-> NoSecurityMetadata]

NoUrl == [key |-> NoKey, disposition |-> "none", expires |-> 0]

(* The multipart upload not yet received: buffer, originalname, mimetype,  *)
(* and whether VIRUS_SCAN_ENABLED is set.                                  *)
NoUpload ==
  [buffer |-> [bytes |-> <<>>, contains |-> {}], originalName |-> <<>>,
   mimeType |-> Null, scanEnabled |-> FALSE]

(* The FileSecurityResult before any check, with the checks performed and  *)
(* those performed on a file that stood rejected.                          *)
NoScanResult == [isClean |-> TRUE, errorMessage |-> Null, scanEngine |-> Null]

NoValidation ==
  [isValid |-> TRUE, errors |-> <<>>, warnings |-> <<>>,
   metadata |-> [detectedMimeType |-> Null, fileSignature |-> <<>>,
                 isExecutable |-> FALSE, hasEmbeddedContent |-> FALSE,
                 virusScanResult |-> NoScanResult],
   performed |-> <<>>, rejectedAt |-> {}]

(* The data of a GET /api/files/stats response not yet computed. *)
NoStats == [totalFiles |-> 0 - 1, totalSize |-> 0 - 1, remainingQuota |-> 0 - 1]

(* What a GET of a presigned URL was asked and answered. *)
NoFetch == [disposition |-> "none", status |-> 0]

IdleRun ==
  [ kind |-> "none", pc |-> "idle", user |-> "none", file |-> NoFile,
    target |-> 0, doc |-> NoRow, key |-> NoKey,
    stages |-> <<>>, failedStage |-> "none",
    status |-> 0, code |-> "none", url |-> NoUrl,
    categoryId |-> Null, updates |-> NoUpdates, countSeen |-> 0 - 1,
    fetch |-> NoFetch, stats |-> NoStats,
    upload |-> NoUpload, validation |-> NoValidation,
    securityMetadata |-> NoSecurityMetadata,
    quotaSeen |-> 0 - 1, existsSeen |-> "unset", gateway |-> "none",
    dbFault |-> FALSE,
    calls |-> <<>> ]

(* Documents already stored when the observation starts: the uploader u1   *)
(* holds as many files of 49MB as fit under the cap, 490MB in total.       *)
SeedIds == { 100 + i : i \in 1..(MAX_TOTAL_SIZE_PER_USER \div MAX_FILE_SIZE) }

SeedKey(i) == [owner |-> "u1", uuid |-> i]

SeedDocs ==
  { [id |-> i, s3Key |-> SeedKey(i), uploadedBy |-> "u1",
     fileSize |-> MAX_FILE_SIZE - MB,
     fileName |-> "upload.pdf", categoryId |-> Null, description |-> Null,
     tags |-> <<>>,
     securityMetadata |-> SecurityMetadata(File(MAX_FILE_SIZE - MB, TRUE, TRUE))]
    : i \in SeedIds }

(* The seeded document that requests may name. *)
SeedTarget == CHOOSE i \in SeedIds : \A j \in SeedIds : i <= j

Targets == Runs \cup {SeedTarget}

(* The rate limiter and the web client while the file requests are        *)
(* observed: no request counted, no page loaded.                           *)
NoLimiter == [attempts |-> {}, now |-> 0, ticks |-> 0, served |-> <<>>]

NoClient == [loaded |-> FALSE]

Init ==
  /\ \E seeded \in BOOLEAN :
       /\ documents = IF seeded THEN SeedDocs ELSE {}
       /\ objects = IF seeded THEN { d.s3Key : d \in SeedDocs } ELSE {}
  /\ categories = DefaultCategories
  /\ auditLog = {}
  /\ run = [r \in Runs |-> IdleRun]
  /\ limiter = NoLimiter
  /\ client = NoClient

(* Runs are numbered in the order in which the requests arrive.            *)
CanStart(r) ==
  /\ run[r].pc = "idle"
  /\ \A q \in Runs : q < r => run[q].pc # "idle"

(* ----------------------------- helpers -------------------------------- *)

RECURSIVE SumSizes(_)
SumSizes(rows) ==
  IF rows = {} THEN 0
  ELSE LET d == CHOOSE x \in rows : TRUE
       IN d.fileSize + SumSizes(rows \ {d})

(* SELECT COALESCE(SUM(file_size), 0) FROM documents WHERE uploaded_by = $1 *)
getUserTotalFileSize(userId) ==
  SumSizes({ d \in documents : d.uploadedBy = userId })

(* SELECT ... FROM documents d WHERE d.id = $1 *)
getDocumentById(id) == { d \in documents : d.id = id }

(* A uuidv4 that returns the same value on every call.                     *)
uuidv4_Repeated(r) == r - r

(* uuidv4() and dbUtils.generateId(): a value fresh for every call.  Each  *)
(* run makes at most one call of each, so the run's number stands for it.  *)
uuidv4(r) == r

generateId(r) == r

(* logFileOperation: logger.info of the audit record.  FileAuditLog has no *)
(* field for a storage key, and no caller puts one into its metadata.      *)
logFileOperation(r, action, fileId, success, errorMessage) ==
  auditLog \cup { [run |-> r, action |-> action, fileId |-> fileId,
                   s3Key |-> NoKey, success |-> success,
                   errorMessage |-> errorMessage] }

Call(op, key, ok) == [op |-> op, key |-> key, ok |-> ok]

(* res.status(...).json(...): the run ends with this response. *)
Respond(rec, status, code) ==
  [rec EXCEPT !.pc = "done", !.status = status, !.code = code]

Enter(rec, stage) == [rec EXCEPT !.stages = Append(@, stage)]

(* The terminal state Failed(stage, reason) with its response. *)
Fail(rec, status, code) ==
  [Respond(rec, status, code) EXCEPT
     !.failedStage = rec.stages[Len(rec.stages)],
     !.stages = Append(@, "Failed")]

Did(rec, op, key, ok) == [rec EXCEPT !.calls = Append(@, Call(op, key, ok))]

(* ------------------------------ upload -------------------------------- *)

(* validateFile with the quota check left out. *)
validateFile_NoQuota(file, userId, checkUserQuota) ==
  (IF file.size > MAX_FILE_SIZE THEN {"size"} ELSE {})
  \cup (IF ~file.formOk THEN {"form"} ELSE {})

(* FileMetadataService.validateFile: the errors it collects.               *)
validateFile(file, userId, checkUserQuota) ==
  (IF file.size > MAX_FILE_SIZE THEN {"size"} ELSE {})
  \cup (IF ~file.formOk THEN {"form"} ELSE {})
  \cup (IF checkUserQuota /\ userId # ""
           /\ getUserTotalFileSize(userId) + file.size > MAX_TOTAL_SIZE_PER_USER
        THEN {"quota"} ELSE {})

(* FileController.uploadFile up to the security verdict: the request is    *)
(* read, FileSecurityService.validateFile judges the bytes, the attempt is *)
(* logged, and a file that fails is answered 400.                          *)
uploadFileRequest(r, files, categoryIds) ==
  /\ CanStart(r)
  /\ \E u \in Users, f \in files, c \in categoryIds :
       LET rec == Enter([IdleRun EXCEPT !.kind = "upload", !.user = u,
                                        !.file = f, !.categoryId = c,
                                        !.securityMetadata = SecurityMetadata(f)],
                        "Validating")
       IN IF ~f.present
          THEN /\ run' = [run EXCEPT ![r] = Fail(rec, 400, "NO_FILE")]
               /\ auditLog' = auditLog
          ELSE /\ auditLog' = logFileOperation(r, "upload", 0, f.secValid,
                                  IF f.secValid THEN "none" ELSE "security")
               /\ run' = [run EXCEPT ![r] =
                    IF f.secValid
                    THEN [rec EXCEPT !.pc = "validateFile"]
                    ELSE Fail(rec, 400, "FILE_SECURITY_VALIDATION_FAILED")]
  /\ UNCHANGED <<objects, documents>>

(* An upload that names no category. *)
uploadFileSecurity(r) == uploadFileRequest(r, Files, {Null})

(* uploadFileValidate with the bytes sent to S3 before the file is         *)
(* validated.                                                              *)
uploadFileValidate_StoreFirst(r) ==
  /\ run[r].pc = "validateFile"
  /\ LET key == [owner |-> run[r].user, uuid |-> uuidv4(r)]
         rec == [Did(run[r], "put", key, TRUE) EXCEPT
                   !.quotaSeen = getUserTotalFileSize(run[r].user),
                   !.key = key]
         errors == validateFile(run[r].file, run[r].user, TRUE)
     IN /\ objects' = objects \cup {key}
        /\ run' = [run EXCEPT ![r] =
             IF errors = {}
             THEN Enter(Enter([rec EXCEPT !.pc = "createDocument"], "Storing"),
                        "Persisting")
             ELSE Fail(rec, 400, "UPLOAD_FAILED")]
  /\ UNCHANGED <<documents, auditLog>>

(* uploadFileValidate with the S3 upload forgotten. *)
uploadFileValidate_SkipStore(r) ==
  /\ run[r].pc = "validateFile"
  /\ LET rec == [run[r] EXCEPT
                   !.quotaSeen = getUserTotalFileSize(run[r].user)]
         errors == validateFile(run[r].file, run[r].user, TRUE)
     IN run' = [run EXCEPT ![r] =
          IF errors = {}
          THEN Enter([rec EXCEPT !.pc = "createDocument"], "Persisting")
          ELSE Fail(rec, 400, "UPLOAD_FAILED")]
  /\ UNCHANGED <<objects, documents, auditLog>>

(* FileService.uploadFile, first await: metadataService.validateFile with  *)
(* checkUserQuota; any error is thrown and answered 400 UPLOAD_FAILED.     *)
uploadFileValidate(r) ==
  /\ run[r].pc = "validateFile"
  /\ LET rec == [run[r] EXCEPT
                   !.quotaSeen = getUserTotalFileSize(run[r].user)]
         errors == validateFile(run[r].file, run[r].user, TRUE)
     IN run' = [run EXCEPT ![r] =
          IF errors = {}
          THEN Enter([rec EXCEPT !.pc = "s3Upload"], "Storing")
          ELSE Fail(rec, 400, "UPLOAD_FAILED")]
  /\ UNCHANGED <<objects, documents, auditLog>>

(* The catch block of FileService.uploadFile: the compensating calls it    *)
(* makes for the stored key before it rethrows.  Both branches rethrow     *)
(* at once; the cleanup try block is empty.                                *)
uploadFileCleanup(message, key) ==
  IF includes(message, "S3") THEN <<>> ELSE <<>>

(* s3UploadFile with a failed upload swallowed: the service goes on to     *)
(* create the document.                                                    *)
s3UploadFile_Swallow(r) ==
  /\ run[r].pc = "s3Upload"
  /\ \/ LET key == [owner |-> run[r].user, uuid |-> uuidv4(r)]
         IN /\ objects' = objects \cup {key}
            /\ run' = [run EXCEPT ![r] =
                 Enter([Did(run[r], "put", key, TRUE) EXCEPT
                          !.pc = "createDocument", !.key = key], "Persisting")]
     \/ /\ objects' = objects
        /\ run' = [run EXCEPT ![r] =
             Enter([Did(run[r], "put", NoKey, FALSE) EXCEPT
                      !.pc = "createDocument",
                      !.gateway = "StorageUnavailable"], "Persisting")]
  /\ UNCHANGED <<documents, auditLog>>

(* S3Service.uploadFile: s3.upload under a fresh key in the uploader's     *)
(* namespace; an SDK error is rethrown as "Failed to upload file to S3".   *)
s3UploadFile(r) ==
  /\ run[r].pc = "s3Upload"
  /\ \/ LET key == [owner |-> run[r].user, uuid |-> uuidv4(r)]
         IN /\ objects' = objects \cup {key}
            /\ run' = [run EXCEPT ![r] =
                 Enter([Did(run[r], "put", key, TRUE) EXCEPT
                          !.pc = "createDocument", !.key = key], "Persisting")]
     \/ \E m \in AwsMessages :
          LET message == {"S3"} \cup m
              rec == [Did(run[r], "put", NoKey, FALSE) EXCEPT
                        !.gateway = "StorageUnavailable"]
              cleanup == uploadFileCleanup(message, NoKey)
          IN /\ objects' = objects \ { cleanup[i].key : i \in 1..Len(cleanup) }
             /\ run' = [run EXCEPT ![r] =
                  Fail([rec EXCEPT !.calls = @ \o cleanup], 400, "UPLOAD_FAILED")]
  /\ UNCHANGED <<documents, auditLog>>

(* The constraints of the documents table on a row written to it: the     *)
(* primary key, file_size > 0, s3_key UNIQUE, and category_id NULL or the  *)
(* id of a category.                                                       *)
insertAllowed(row) ==
  /\ \A d \in documents : d.id # row.id /\ d.s3Key # row.s3Key
  /\ row.fileSize > 0
  /\ row.categoryId = Null \/ row.categoryId \in categories

(* FileMetadataService.createDocument: one INSERT; on success the          *)
(* controller answers 201, on a database error the catch blocks of the     *)
(* service and the controller answer 400 UPLOAD_FAILED.                    *)
createDocument(r) ==
  /\ run[r].pc = "createDocument"
  /\ \/ LET row == [id |-> generateId(r), s3Key |-> run[r].key,
                     uploadedBy |-> run[r].user,
                     fileSize |-> run[r].file.size,
                     fileName |-> "upload.pdf",
                     categoryId |-> run[r].categoryId,
                     description |-> Null, tags |-> <<>>,
                     securityMetadata |-> run[r].securityMetadata]
         IN /\ insertAllowed(row)
            /\ documents' = documents \cup {row}
            /\ run' = [run EXCEPT ![r] =
                 Respond(Enter([Did(run[r], "create", run[r].key, TRUE)
                                  EXCEPT !.doc = row], "Complete"),
                         201, "CREATED")]
            /\ UNCHANGED objects
     \/ \E m \in DbMessages :
          LET rec == [Did(run[r], "create", run[r].key, FALSE) EXCEPT
                        !.dbFault = TRUE]
              cleanup == uploadFileCleanup(m, run[r].key)
          IN /\ documents' = documents
             /\ objects' = objects \ { cleanup[i].key : i \in 1..Len(cleanup) }
             /\ run' = [run EXCEPT ![r] =
                  Fail([rec EXCEPT !.calls = @ \o cleanup], 400, "UPLOAD_FAILED")]
  /\ UNCHANGED auditLog

(* ------------------------------ delete -------------------------------- *)

(* FileController.deleteDocument, first await: the row is read for the     *)
(* audit record; a missing row is answered 404.                            *)
deleteDocumentLookup(r) ==
  /\ CanStart(r)
  /\ \E u \in Users, id \in Targets :
       LET rec == [IdleRun EXCEPT !.kind = "delete", !.user = u, !.target = id]
           found == getDocumentById(id)
       IN run' = [run EXCEPT ![r] =
            IF found = {}
            THEN Respond(rec, 404, "DOCUMENT_NOT_FOUND")
            ELSE [rec EXCEPT !.pc = "deleteService",
                             !.doc = CHOOSE d \in found : TRUE]]
  /\ UNCHANGED <<objects, documents, auditLog>>

(* The catch block of FileController.deleteDocument. *)
deleteDocumentStatus(message) ==
  IF includes(message, "Permission denied") THEN 403 ELSE 500

deleteDocumentCode(message) ==
  IF deleteDocumentStatus(message) = 403 THEN "PERMISSION_DENIED"
  ELSE "DELETE_FAILED"

(* The catch block of FileService.deleteDocument: an error that mentions   *)
(* S3 is replaced by "Failed to delete file from storage".                 *)
deleteDocumentCatch(message) ==
  IF includes(message, "S3") THEN {} ELSE message

(* deleteDocument without the comparison of uploadedBy with the caller.    *)
deleteDocumentAuthorize_NoOwnerCheck(r) ==
  /\ run[r].pc = "deleteService"
  /\ LET found == getDocumentById(run[r].target)
         document == CHOOSE d \in found : TRUE
         thrown == {"not found"}
     IN run' = [run EXCEPT ![r] =
          IF found = {}
          THEN Respond(run[r], deleteDocumentStatus(thrown),
                       deleteDocumentCode(thrown))
          ELSE [run[r] EXCEPT !.pc = "s3Delete", !.doc = document]]
  /\ UNCHANGED <<objects, documents, auditLog>>

(* FileService.deleteDocument up to the permission check. *)
deleteDocumentAuthorize(r) ==
  /\ run[r].pc = "deleteService"
  /\ LET found == getDocumentById(run[r].target)
         document == CHOOSE d \in found : TRUE
         thrown == IF found = {} THEN {"not found"} ELSE {"Permission denied"}
     IN run' = [run EXCEPT ![r] =
          IF found = {} \/ document.uploadedBy # run[r].user
          THEN Respond(run[r], deleteDocumentStatus(thrown),
                       deleteDocumentCode(thrown))
          ELSE [run[r] EXCEPT !.pc = "s3Delete", !.doc = document]]
  /\ UNCHANGED <<objects, documents, auditLog>>

(* deleteFile with a failed S3 delete swallowed: the service goes on to    *)
(* delete the metadata row.                                                *)
deleteFile_Swallow(r) ==
  /\ run[r].pc = "s3Delete"
  /\ LET key == run[r].doc.s3Key
         seen == IF key \in objects THEN "present" ELSE "absent"
     IN \/ /\ objects' = objects \ {key}
           /\ run' = [run EXCEPT ![r] =
                [Did(run[r], "s3delete", key, TRUE) EXCEPT
                   !.pc = "deleteMetadata", !.existsSeen = seen]]
        \/ /\ objects' = objects
           /\ run' = [run EXCEPT ![r] =
                [Did(run[r], "s3delete", key, FALSE) EXCEPT
                   !.pc = "deleteMetadata", !.existsSeen = seen,
                   !.gateway = "StorageUnavailable"]]
  /\ UNCHANGED <<documents, auditLog>>

(* deleteFile that refuses a key that is not in the bucket. *)
deleteFile_MissingIsError(r) ==
  /\ run[r].pc = "s3Delete"
  /\ LET key == run[r].doc.s3Key
         seen == IF key \in objects THEN "present" ELSE "absent"
     IN IF key \in objects
        THEN /\ objects' = objects \ {key}
             /\ run' = [run EXCEPT ![r] =
                  [Did(run[r], "s3delete", key, TRUE) EXCEPT
                     !.pc = "deleteMetadata", !.existsSeen = seen]]
        ELSE /\ objects' = objects
             /\ run' = [run EXCEPT ![r] =
                  Respond([Did(run[r], "s3delete", key, FALSE) EXCEPT
                             !.existsSeen = seen, !.gateway = "NotFound"],
                          500, "DELETE_FAILED")]
  /\ UNCHANGED <<documents, auditLog>>

(* S3Service.deleteFile: s3.deleteObject, which succeeds whether or not    *)
(* the key exists; an SDK error is rethrown as "Failed to delete file      *)
(* from S3" and the metadata row is left alone.                            *)
deleteFile(r) ==
  /\ run[r].pc = "s3Delete"
  /\ LET key == run[r].doc.s3Key
         seen == IF key \in objects THEN "present" ELSE "absent"
     IN \/ /\ objects' = objects \ {key}
           /\ run' = [run EXCEPT ![r] =
                [Did(run[r], "s3delete", key, TRUE) EXCEPT
                   !.pc = "deleteMetadata", !.existsSeen = seen]]
        \/ \E m \in AwsMessages :
             LET message == deleteDocumentCatch({"S3"} \cup m)
             IN /\ objects' = objects
                /\ run' = [run EXCEPT ![r] =
                     Respond([Did(run[r], "s3delete", key, FALSE) EXCEPT
                                !.existsSeen = seen,
                                !.gateway = "StorageUnavailable"],
                             deleteDocumentStatus(message),
                             deleteDocumentCode(message))]
  /\ UNCHANGED <<documents, auditLog>>

(* FileMetadataService.deleteDocument (DELETE ... WHERE id = $1, true if a *)
(* row went), then the audit record and the response of the controller.    *)
deleteDocumentMetadata(r) ==
  /\ run[r].pc = "deleteMetadata"
  /\ LET id == run[r].target
         deleted == getDocumentById(id) # {}
     IN \/ /\ documents' = documents \ getDocumentById(id)
           /\ auditLog' = logFileOperation(r, "delete", id, deleted, "none")
           /\ run' = [run EXCEPT ![r] =
                IF deleted
                THEN Respond(Did(run[r], "dbdelete", run[r].doc.s3Key, TRUE),
                             200, "DELETED")
                ELSE Respond(Did(run[r], "dbdelete", run[r].doc.s3Key, FALSE),
                             500, "DELETE_FAILED")]
        \/ \E m \in DbMessages :
             LET message == deleteDocumentCatch(m)
             IN /\ UNCHANGED <<documents, auditLog>>
                /\ run' = [run EXCEPT ![r] =
                     Respond([Did(run[r], "dbdelete", run[r].doc.s3Key, FALSE)
                                EXCEPT !.dbFault = TRUE],
                             deleteDocumentStatus(message),
                             deleteDocumentCode(message))]
  /\ UNCHANGED objects

(* ---------------------------- access URLs ------------------------------ *)

(* The catch blocks of FileController.getDownloadUrl and getViewUrl. *)
getUrlStatus(message) == IF includes(message, "not found") THEN 404 ELSE 500

getUrlCode(kind, message) ==
  IF getUrlStatus(message) = 404 THEN "DOCUMENT_NOT_FOUND"
  ELSE IF kind = "download" THEN "DOWNLOAD_URL_FAILED" ELSE "VIEW_URL_FAILED"

Throw(rec, message) ==
  Respond(rec, getUrlStatus(message), getUrlCode(rec.kind, message))

(* FileController.getDownloadUrl reads the row for the audit record and    *)
(* answers 404 if there is none; getViewUrl calls the service at once.     *)
getUrlLookup(r) ==
  /\ CanStart(r)
  /\ \E u \in Users, id \in Targets, kind \in {"download", "view"} :
       LET rec == [IdleRun EXCEPT !.kind = kind, !.user = u, !.target = id]
       IN run' = [run EXCEPT ![r] =
            IF kind = "download" /\ getDocumentById(id) = {}
            THEN Respond(rec, 404, "DOCUMENT_NOT_FOUND")
            ELSE [rec EXCEPT !.pc = "urlService"]]
  /\ UNCHANGED <<objects, documents, auditLog>>

(* FileService.getDownloadUrl / getViewUrl, first await. *)
getUrlService(r) ==
  /\ run[r].pc = "urlService"
  /\ LET found == getDocumentById(run[r].target)
     IN run' = [run EXCEPT ![r] =
          IF found = {}
          THEN Throw(run[r], {"not found"})
          ELSE [run[r] EXCEPT !.pc = "fileExists",
                              !.doc = CHOOSE d \in found : TRUE]]
  /\ UNCHANGED <<objects, documents, auditLog>>

(* What s3.headObject answers for a key: success if the object is there,   *)
(* the error NotFound (no message) if it is not, or a service error.       *)
headObject(key) ==
  (IF key \in objects THEN {[code |-> "none", message |-> {}]}
   ELSE {[code |-> "NotFound", message |-> {}]})
  \cup { [code |-> "NetworkingError", message |-> m] : m \in AwsMessages }

(* fileExists without the test of the error code: every error is thrown. *)
fileExistsResult_NoCodeTest(error) ==
  IF error.code = "none" THEN "true" ELSE "throw"

(* S3Service.fileExists: true, false, or a thrown error. *)
fileExistsResult(error) ==
  IF error.code = "none" THEN "true"
  ELSE IF error.code = "NotFound" THEN "false"
  ELSE "throw"

(* s3Service.fileExists and the branch of the service on its answer. *)
fileExists(r) ==
  /\ run[r].pc = "fileExists"
  /\ \E error \in headObject(run[r].doc.s3Key) :
       LET answer == fileExistsResult(error)
           rec == [run[r] EXCEPT
                     !.existsSeen = IF run[r].doc.s3Key \in objects
                                    THEN "present" ELSE "absent",
                     !.gateway = IF error.code = "none" THEN "ok"
                                 ELSE IF error.code = "NotFound" THEN "NotFound"
                                 ELSE "StorageUnavailable"]
       IN run' = [run EXCEPT ![r] =
            IF answer = "true" THEN [rec EXCEPT !.pc = "presign"]
            ELSE IF answer = "false" THEN Throw(rec, {"not found"})
            ELSE Throw(rec, error.message)]
  /\ UNCHANGED <<objects, documents, auditLog>>

(* S3Service.generatePresignedDownloadUrl / generatePresignedViewUrl, then *)
(* the audit record (download only) and the response of the controller.    *)
generatePresignedUrl(r) ==
  /\ run[r].pc = "presign"
  /\ \/ /\ run' = [run EXCEPT ![r] =
              Respond([run[r] EXCEPT !.url =
                         [key |-> run[r].doc.s3Key,
                          disposition |-> IF run[r].kind = "download"
                                          THEN "attachment" ELSE "inline",
                          expires |-> presignedUrlExpires]],
                      200, "OK")]
        /\ auditLog' = IF run[r].kind = "download"
                       THEN logFileOperation(r, "download", run[r].target, TRUE, "none")
                       ELSE auditLog
     \/ \E m \in AwsMessages :
          /\ run' = [run EXCEPT ![r] =
               Throw([run[r] EXCEPT !.gateway = "StorageUnavailable"], m)]
          /\ auditLog' = auditLog
  /\ UNCHANGED <<objects, documents>>

(* --------------------------- use of a URL ------------------------------ *)

(* The request was answered with a presigned URL. *)
IsMinted(r) ==
  /\ run[r].kind \in {"download", "view"}
  /\ run[r].pc = "done" /\ run[r].status = 200

(* Parameters signed without the response disposition.                     *)
signedParams_NoDisposition(url) == <<url.key, url.expires>>

(* The params object both generators pass to s3.getSignedUrlPromise: the   *)
(* signature of the URL covers the key, the expiry and                     *)
(* ResponseContentDisposition.                                             *)
signedParams(url) == <<url.key, url.disposition, url.expires>>

(* A client presents the URL a request was answered with, its              *)
(* response-content-disposition parameter as minted or rewritten.  S3      *)
(* recomputes the signature over the presented parameters and answers 403  *)
(* when it differs from the one in the URL, 404 when the key has no        *)
(* object, and otherwise serves the bytes with the presented disposition.  *)
s3GetObject(r) ==
  /\ IsMinted(r)
  /\ run[r].fetch = NoFetch
  /\ \E presented \in {"inline", "attachment"} :
       LET url == run[r].url
           asked == [url EXCEPT !.disposition = presented]
           status == IF signedParams(asked) # signedParams(url) THEN 403
                     ELSE IF url.key \notin objects THEN 404
                     ELSE 200
       IN run' = [run EXCEPT ![r].fetch =
                    [disposition |-> presented, status |-> status]]
  /\ UNCHANGED <<objects, documents, categories, auditLog>>

(* -------------------------- content validation ------------------------ *)

(* A file buffer: its leading bytes (all of them when the file is shorter  *)
(* than eight bytes) and the markers that occur in the rest of its text.   *)
Buffer(bytes, contains) == [bytes |-> bytes, contains |-> contains]

DOCX == "application/vnd.openxmlformats-officedocument.wordprocessingml.document"

XLSX == "application/vnd.openxmlformats-officedocument.spreadsheetml.sheet"

(* FileSecurityService.fileSignatures, in the order of Object.entries. *)
fileSignatures ==
  << [mimeType |-> "application/pdf", signatures |-> << <<37, 80, 68, 70>> >>],
     [mimeType |-> "image/jpeg", signatures |-> << <<255, 216, 255>> >>],
     [mimeType |-> "image/png", signatures |-> << <<137, 80, 78, 71>> >>],
     [mimeType |-> "image/gif",
      signatures |-> << <<71, 73, 70, 56, 55, 97>>, <<71, 73, 70, 56, 57, 97>> >>],
     [mimeType |-> "application/msword",
      signatures |-> << <<208, 207, 17, 224, 161, 177, 26, 225>> >>],
     [mimeType |-> DOCX, signatures |-> << <<80, 75, 3, 4>> >>],
     [mimeType |-> "application/vnd.ms-excel",
      signatures |-> << <<208, 207, 17, 224, 161, 177, 26, 225>> >>],
     [mimeType |-> XLSX, signatures |-> << <<80, 75, 3, 4>> >>],
     [mimeType |-> "text/plain", signatures |-> << >>] >>

(* FileSecurityService.dangerousSignatures *)
dangerousSignatures ==
  << <<77, 90>>, <<127, 69, 76, 70>>, <<202, 254, 186, 190>>,
     <<254, 237, 250, 206>>, <<33, 60, 97, 114, 99, 104, 62>> >>

(* String.prototype.startsWith on the hex text of the bytes. *)
startsWith(signature, sig) ==
  /\ Len(sig) <= Len(signature)
  /\ SubSeq(signature, 1, Len(sig)) = sig

(* fileBuffer.subarray(0, 8) *)
signatureOf(buffer) ==
  SubSeq(buffer.bytes, 1, IF Len(buffer.bytes) < 8 THEN Len(buffer.bytes) ELSE 8)

(* The loop over fileSignatures: the first type one of whose signatures    *)
(* the file starts with.                                                   *)
detectType(signature) ==
  LET hits == { i \in 1..Len(fileSignatures) :
                  \E k \in 1..Len(fileSignatures[i].signatures) :
                    startsWith(signature, fileSignatures[i].signatures[k]) }
  IN IF hits = {} THEN Null
     ELSE fileSignatures[CHOOSE i \in hits : \A j \in hits : i <= j].mimeType

(* this.fileSignatures[declaredMimeType]?.length > 0 *)
hasSignatures(mimeType) ==
  \E i \in 1..Len(fileSignatures) :
    fileSignatures[i].mimeType = mimeType /\ Len(fileSignatures[i].signatures) > 0

(* isTextContent: fewer than 10% of the sampled bytes are non-printable.   *)
isTextContent(buffer) ==
  LET sample == buffer.bytes
      nonPrintable ==
        Cardinality({ i \in 1..Len(sample) :
                        /\ ~(sample[i] >= 32 /\ sample[i] <= 126)
                        /\ sample[i] \notin {10, 13, 9} })
  IN Len(sample) > 0 /\ 10 * nonPrintable < Len(sample)

(* validateFileSignature *)
validateFileSignature(buffer, declaredMimeType) ==
  LET signature == signatureOf(buffer)
      detectedType == detectType(signature)
      result == [isValid |-> TRUE, errors |-> <<>>, warnings |-> <<>>,
                 detectedMimeType |-> Null, signature |-> <<>>]
  IN IF Len(buffer.bytes) < 4
     THEN [result EXCEPT !.errors = <<"File too small to validate signature">>,
                         !.isValid = FALSE]
     ELSE IF declaredMimeType = "text/plain"
     THEN [result EXCEPT
             !.signature = signature, !.detectedMimeType = detectedType,
             !.warnings = IF isTextContent(buffer) THEN <<>>
                          ELSE <<"File declared as text but contains binary data">>]
     ELSE IF detectedType # Null /\ detectedType # declaredMimeType
     THEN [result EXCEPT
             !.signature = signature, !.detectedMimeType = detectedType,
             !.errors = <<"File signature indicates another type than declared">>,
             !.isValid = FALSE]
     ELSE IF detectedType = Null /\ hasSignatures(declaredMimeType)
     THEN [result EXCEPT
             !.signature = signature, !.detectedMimeType = detectedType,
             !.warnings = <<"Could not verify file signature for declared MIME type">>]
     ELSE [result EXCEPT
             !.signature = signature, !.detectedMimeType = detectedType]

(* A check of the leading bytes that blocks nothing.                       *)
checkDangerousSignatures_None(buffer) ==
  [isValid |-> TRUE, errors |-> <<>>, isExecutable |-> FALSE]

(* checkDangerousSignatures *)
checkDangerousSignatures(buffer) ==
  LET signature == signatureOf(buffer)
      dangerous == /\ Len(buffer.bytes) >= 4
                   /\ \E k \in 1..Len(dangerousSignatures) :
                        startsWith(signature, dangerousSignatures[k])
  IN [isValid |-> ~dangerous,
      errors |-> IF dangerous
                 THEN <<"File appears to be an executable or dangerous file type">>
                 ELSE <<>>,
      isExecutable |-> dangerous]

(* expectedExtensions of validateFileName *)
expectedExtensions(mimeType) ==
  IF mimeType = "application/pdf" THEN {"pdf"}
  ELSE IF mimeType = "image/jpeg" THEN {"jpg", "jpeg"}
  ELSE IF mimeType = "image/png" THEN {"png"}
  ELSE IF mimeType = "image/gif" THEN {"gif"}
  ELSE IF mimeType = "application/msword" THEN {"doc"}
  ELSE IF mimeType = DOCX THEN {"docx"}
  ELSE IF mimeType = "application/vnd.ms-excel" THEN {"xls"}
  ELSE IF mimeType = XLSX THEN {"xlsx"}
  ELSE {"txt", "text"}

(* validateFileName; a file name is the sequence of its lower-case parts   *)
(* between the dots.                                                       *)
validateFileName(fileName, mimeType) ==
  LET extension == fileName[Len(fileName)]
      mismatch == extension \notin expectedExtensions(mimeType)
      double == /\ Len(fileName) > 2
                /\ fileName[Len(fileName) - 1]
                     \in {"exe", "bat", "cmd", "scr", "vbs", "js"}
  IN [isValid |-> ~double,
      errors |-> IF double
                 THEN <<"File has potentially dangerous double extension">>
                 ELSE <<>>,
      warnings |-> IF mismatch
                   THEN <<"File extension doesn't match MIME type">>
                   ELSE <<>>]

(* checkEmbeddedContent *)
checkEmbeddedContent(buffer, mimeType) ==
  LET script == /\ mimeType = "application/pdf"
                /\ buffer.contains \cap {"/JavaScript", "/JS"} # {}
      macros == /\ mimeType \in {DOCX, XLSX, "application/msword",
                                 "application/vnd.ms-excel"}
                /\ "vbaProject.bin" \in buffer.contains
  IN [warnings |-> (IF script THEN <<"PDF contains embedded JavaScript">>
                    ELSE <<>>)
                   \o (IF macros THEN <<"Office document contains macros">>
                       ELSE <<>>),
      hasEmbedded |-> script \/ macros]

(* buffer.includes(0) *)
containsNullBytes(buffer) == \E i \in 1..Len(buffer.bytes) : buffer.bytes[i] = 0

(* One numbered step of FileSecurityService.validateFile: the check is     *)
(* noted in performed and, when the file stood rejected before it ran, in  *)
(* rejectedAt.                                                             *)
Performed(result, check) ==
  [result EXCEPT !.performed = Append(@, check),
                 !.rejectedAt = IF result.isValid THEN @ ELSE @ \cup {check}]

(* The checks of steps 1 to 6 in the order in which validateFile makes     *)
(* them.                                                                   *)
securityCheckOrder ==
  <<"signature", "dangerous", "filename", "embedded", "emptiness", "nullbytes">>

(* The checks without those of the file's length: neither the signature   *)
(* check's minimum of four bytes nor the emptiness check.                  *)
securityChecks_NoLength(buffer, originalName, mimeType) ==
  LET dangerous == checkDangerousSignatures(buffer)
      name == validateFileName(originalName, mimeType)
      embedded == checkEmbeddedContent(buffer, mimeType)
  IN [isValid |-> dangerous.isValid /\ name.isValid,
      errors |-> dangerous.errors \o name.errors,
      warnings |-> embedded.warnings,
      metadata |-> [detectedMimeType |-> detectType(signatureOf(buffer)),
                    fileSignature |-> signatureOf(buffer),
                    isExecutable |-> dangerous.isExecutable,
                    hasEmbeddedContent |-> embedded.hasEmbedded,
                    virusScanResult |-> NoScanResult],
      performed |-> securityCheckOrder,
      rejectedAt |-> {}]

(* FileSecurityService.validateFile, steps 1 to 6: every check runs and    *)
(* adds to errors and warnings, whatever the checks before it found; the   *)
(* warnings of the signature and of the file name checks are kept only     *)
(* when that check found an error.                                         *)
securityChecks(buffer, originalName, mimeType) ==
  LET sig == validateFileSignature(buffer, mimeType)
      dangerous == checkDangerousSignatures(buffer)
      name == validateFileName(originalName, mimeType)
      embedded == checkEmbeddedContent(buffer, mimeType)
      empty == Len(buffer.bytes) = 0
      verdicts == <<sig.isValid, dangerous.isValid, name.isValid, TRUE,
                    ~empty, TRUE>>
      stoodRejected(k) == \E i \in 1..(k - 1) : ~verdicts[i]
  IN [isValid |-> \A k \in 1..Len(verdicts) : verdicts[k],
      errors |-> (IF sig.isValid THEN <<>> ELSE sig.errors)
                 \o dangerous.errors
                 \o (IF name.isValid THEN <<>> ELSE name.errors)
                 \o (IF empty THEN <<"File is empty">> ELSE <<>>),
      warnings |-> (IF sig.isValid THEN <<>> ELSE sig.warnings)
                   \o (IF name.isValid THEN <<>> ELSE name.warnings)
                   \o embedded.warnings
                   \o (IF containsNullBytes(buffer)
                       THEN <<"File contains null bytes">> ELSE <<>>),
      metadata |-> [detectedMimeType |-> sig.detectedMimeType,
                    fileSignature |-> sig.signature,
                    isExecutable |-> dangerous.isExecutable,
                    hasEmbeddedContent |-> embedded.hasEmbedded,
                    virusScanResult |-> NoScanResult],
      performed |-> securityCheckOrder,
      rejectedAt |-> { securityCheckOrder[k] :
                         k \in { n \in 1..Len(securityCheckOrder) :
                                   stoodRejected(n) } }]

(* The multipart uploads that are tried. *)
Buffers ==
  { Buffer(<<37, 80, 68, 70, 45, 49, 46, 52>>, {}),
    Buffer(<<37, 80, 68, 70, 45, 49, 46, 52>>, {"/JavaScript"}),
    Buffer(<<137, 80, 78, 71, 13, 10, 26, 10>>, {}),
    Buffer(<<80, 75, 3, 4, 20, 0, 6, 0>>, {"vbaProject.bin"}),
    Buffer(<<77, 90, 144, 0, 3, 0, 0, 0>>, {}),
    Buffer(<<127, 69, 76, 70, 2, 1, 1, 0>>, {}),
    Buffer(<<202, 254, 186, 190, 0, 0, 0, 52>>, {}),
    Buffer(<<254, 237, 250, 206, 0, 0, 0, 18>>, {}),
    Buffer(<<77, 90>>, {}),
    Buffer(<<104, 101, 108, 108, 111, 32, 119, 111>>, {}),
    Buffer(<<104, 105>>, {}),
    Buffer(<<>>, {}) }

FileNames ==
  { <<"report", "pdf">>, <<"notes", "txt">>, <<"image", "png">>,
    <<"sheet", "xlsx">>, <<"report", "exe", "pdf">>,
    <<"invoice", "pdf", "exe">> }

DeclaredTypes == {"application/pdf", "text/plain", "image/png", XLSX}

(* The VirusScanResult values a scan engine may return: clean, infected,   *)
(* or clean with an errorMessage.                                          *)
ScanResults ==
  { [isClean |-> TRUE, errorMessage |-> Null, scanEngine |-> "clamav"],
    [isClean |-> FALSE, errorMessage |-> Null, scanEngine |-> "clamav"],
    [isClean |-> TRUE, errorMessage |-> "Scan failed",
     scanEngine |-> "clamav"] }

(* validExtensions of FileMetadataService.isValidFileExtension *)
isValidFileExtension(extension, mimeType) ==
  extension \in (IF mimeType = "text/plain" THEN {"txt"}
                 ELSE expectedExtensions(mimeType))

(* dangerousExtensions of the validateFileUpload middleware *)
dangerousExtensions ==
  {"exe", "bat", "cmd", "com", "pif", "scr", "vbs", "js", "jar", "sh"}

(* The validateFileUpload middleware of the upload route, which answers    *)
(* 400 DANGEROUS_FILE_TYPE for a dangerous last extension; then            *)
(* FileController.uploadFile up to the call of                             *)
(* FileSecurityService.validateFile, and that method up to its only await: *)
(* steps 1 to 6, then the scan when VIRUS_SCAN_ENABLED is set.             *)
validateFileRequest(r) ==
  /\ CanStart(r)
  /\ \E u \in Users, buffer \in Buffers, name \in FileNames,
        mimeType \in DeclaredTypes, enabled \in BOOLEAN :
       LET result == securityChecks(buffer, name, mimeType)
           received == [IdleRun EXCEPT
                          !.kind = "upload", !.user = u,
                          !.upload = [buffer |-> buffer, originalName |-> name,
                                      mimeType |-> mimeType,
                                      scanEnabled |-> enabled]]
           rec == Enter([received EXCEPT !.validation = result], "Validating")
       IN run' = [run EXCEPT ![r] =
            IF name[Len(name)] \in dangerousExtensions
            THEN Respond(received, 400, "DANGEROUS_FILE_TYPE")
            ELSE [rec EXCEPT !.pc = IF enabled THEN "scanFile"
                                    ELSE "securityVerdict"]]
  /\ UNCHANGED <<objects, documents, categories, auditLog>>

(* The scan result taken into the FileSecurityResult, with an errorMessage *)
(* counted as a threat.                                                    *)
scanVerdict_FailClosed(result, virusScanResult) ==
  LET failed == ~virusScanResult.isClean
                  \/ virusScanResult.errorMessage # Null
  IN [result EXCEPT
        !.metadata.virusScanResult = virusScanResult,
        !.errors = IF failed THEN Append(@, "Virus scan detected threats")
                   ELSE @,
        !.isValid = @ /\ ~failed]

(* FileSecurityService.validateFile, step 7 after the await: the scan      *)
(* result is kept in the metadata; threats are an error, an errorMessage   *)
(* is a warning.                                                           *)
scanVerdict(result, virusScanResult) ==
  [result EXCEPT
     !.metadata.virusScanResult = virusScanResult,
     !.errors = IF virusScanResult.isClean THEN @
                ELSE Append(@, "Virus scan detected threats"),
     !.isValid = @ /\ virusScanResult.isClean,
     !.warnings = IF virusScanResult.errorMessage = Null THEN @
                  ELSE Append(@, "Virus scan warning")]

(* FileSecurityService.validateFile, step 7: virusScanService.scanFile is  *)
(* awaited and returns clean, infected, or clean with an errorMessage when *)
(* the engine is unknown or the scan threw.                                *)
scanFile(r) ==
  /\ run[r].pc = "scanFile"
  /\ \E virusScanResult \in ScanResults :
       run' = [run EXCEPT ![r] =
         [run[r] EXCEPT
            !.pc = "securityVerdict",
            !.validation = scanVerdict(Performed(run[r].validation, "scan"),
                                       virusScanResult)]]
  /\ UNCHANGED <<objects, documents, categories, auditLog>>

(* The metadata the controller passes on with an accepted file.            *)
uploadSecurityMetadata(result) ==
  [detectedMimeType |-> result.metadata.detectedMimeType,
   fileSignature |-> result.metadata.fileSignature,
   hasEmbeddedContent |-> result.metadata.hasEmbeddedContent,
   securityWarnings |-> result.warnings]

(* FileController.uploadFile after the security validation: the attempt is *)
(* logged, an invalid file is answered 400, a valid one goes on to         *)
(* FileService.uploadFile with its security metadata.                      *)
uploadFileVerdict(r) ==
  /\ run[r].pc = "securityVerdict"
  /\ LET result == run[r].validation
         up == run[r].upload
         file == File(Len(up.buffer.bytes), result.isValid,
                      isValidFileExtension(up.originalName[Len(up.originalName)],
                                           up.mimeType))
     IN /\ auditLog' = logFileOperation(r, "upload", 0, result.isValid,
                            IF result.isValid THEN "none" ELSE "security")
        /\ run' = [run EXCEPT ![r] =
             IF result.isValid
             THEN [run[r] EXCEPT
                     !.pc = "validateFile", !.file = file,
                     !.securityMetadata = uploadSecurityMetadata(result)]
             ELSE Fail([run[r] EXCEPT !.file = file], 400,
                       "FILE_SECURITY_VALIDATION_FAILED")]
  /\ UNCHANGED <<objects, documents, categories>>

(* -------------------------- storage statistics ------------------------- *)

maxQuota == 500 * 1024 * 1024

Max(a, b) == IF a >= b THEN a ELSE b

(* The remaining quota without the clamp at zero.                          *)
remainingQuota_NoClamp(totalSize) == maxQuota - totalSize

(* Math.max(0, maxQuota - totalSize) *)
remainingQuota(totalSize) == Max(0, maxQuota - totalSize)

(* countWhere({ uploaded_by: userId }) *)
getUserDocumentCount(userId) ==
  Cardinality({ d \in documents : d.uploadedBy = userId })

(* FileController.getStorageStats and FileService.getUserStorageStats,     *)
(* first await: the number of the caller's documents.                      *)
getStorageStats(r) ==
  /\ CanStart(r)
  /\ \E u \in Users :
       LET rec == [IdleRun EXCEPT !.kind = "stats", !.user = u]
       IN \/ run' = [run EXCEPT ![r] =
                [rec EXCEPT !.pc = "totalSize",
                            !.stats.totalFiles = getUserDocumentCount(u)]]
          \/ \E m \in DbMessages :
               run' = [run EXCEPT ![r] =
                 Respond([rec EXCEPT !.dbFault = TRUE], 500, "STATS_FAILED")]
  /\ UNCHANGED <<objects, documents, categories, auditLog>>

(* FileService.getUserStorageStats, second await: the sum of the sizes of  *)
(* the caller's documents, from which the remaining quota is computed and  *)
(* answered.                                                               *)
getUserStorageStats(r) ==
  /\ run[r].pc = "totalSize"
  /\ \/ LET totalSize == getUserTotalFileSize(run[r].user)
         IN run' = [run EXCEPT ![r] =
              Respond([run[r] EXCEPT
                         !.stats.totalSize = totalSize,
                         !.stats.remainingQuota = remainingQuota(totalSize)],
                      200, "OK")]
     \/ \E m \in DbMessages :
          run' = [run EXCEPT ![r] =
            Respond([run[r] EXCEPT !.dbFault = TRUE], 500, "STATS_FAILED")]
  /\ UNCHANGED <<objects, documents, categories, auditLog>>

(* ----------------------------- rate limit ------------------------------ *)

(* The defaults of authRateLimit(maxAttempts, windowMs).                   *)
maxAttempts == 5

windowMs == 15 * 60 * 1000

(* The requests handled and the times the clock is advanced.               *)
MaxRequests == 7

MaxTicks == 2

(* req.ip of the clients that send requests.                               *)
Clients == {"ip1", "ip2"}

(* The Map attempts as the set of its entries, one for each key.           *)
Entry(key, count, resetTime) ==
  [key |-> key, count |-> count, resetTime |-> resetTime]

(* The clean-up loop: entries whose window has expired are deleted.        *)
cleanUp(attempts, now) == { e \in attempts : ~(now > e.resetTime) }

(* A limit that lets one request more through.                             *)
limitExceeded_OffByOne(clientAttempts) == clientAttempts.count > maxAttempts

(* clientAttempts.count >= maxAttempts *)
limitExceeded(clientAttempts) == clientAttempts.count >= maxAttempts

(* What the middleware did with a request: next() or the 429 response,     *)
(* with the client's entry as the request left it.                         *)
Served(clientId, now, passed, entry) ==
  [client |-> clientId, at |-> now, passed |-> passed,
   status |-> IF passed THEN 0 ELSE 429,
   count |-> entry.count, resetTime |-> entry.resetTime]

(* The middleware returned by authRateLimit, which runs without a pause.   *)
authRateLimit(clientId) ==
  /\ Len(limiter.served) < MaxRequests
  /\ LET now == limiter.now
         attempts == cleanUp(limiter.attempts, now)
         found == { e \in attempts : e.key = clientId }
         fresh == Entry(clientId, 1, now + windowMs)
     IN IF found = {}
        THEN limiter' = [limiter EXCEPT
               !.attempts = attempts \cup {fresh},
               !.served = Append(@, Served(clientId, now, TRUE, fresh))]
        ELSE LET clientAttempts == CHOOSE e \in found : TRUE
                 counted == [clientAttempts EXCEPT !.count = @ + 1]
             IN IF now > clientAttempts.resetTime
                THEN limiter' = [limiter EXCEPT
                       !.attempts = (attempts \ found) \cup {fresh},
                       !.served = Append(@, Served(clientId, now, TRUE, fresh))]
                ELSE IF limitExceeded(clientAttempts)
                THEN limiter' = [limiter EXCEPT
                       !.attempts = attempts,
                       !.served = Append(@, Served(clientId, now, FALSE,
                                                   clientAttempts))]
                ELSE limiter' = [limiter EXCEPT
                       !.attempts = (attempts \ found) \cup {counted},
                       !.served = Append(@, Served(clientId, now, TRUE,
                                                   counted))]
  /\ UNCHANGED <<objects, documents, categories, auditLog, run, client>>

(* Date.now() moves on between two requests: by a millisecond or by the    *)
(* length of a window.                                                     *)
tick ==
  /\ limiter.ticks < MaxTicks
  /\ \E dt \in {1, windowMs} :
       limiter' = [limiter EXCEPT !.now = @ + dt, !.ticks = @ + 1]
  /\ UNCHANGED <<objects, documents, categories, auditLog, run, client>>

(* ----------------------------- web client ------------------------------ *)

(* The API requests the pages make through apiClient.                      *)
MaxCalls == 2

ApiCalls == 1..MaxCalls

(* The callers of tokenRefreshManager.refreshToken: the useAuthSession     *)
(* hook, and the response interceptor on behalf of each API request.       *)
SessionHook == 0

Callers == {SessionHook} \cup ApiCalls

(* refreshPromise = null *)
NoPromise == 0 - 1

IdleCaller == [pc |-> "none", awaits |-> NoPromise, result |-> Null]

IdleRequest ==
  [pc |-> "idle", retry |-> FALSE, sends |-> 0, refreshes |-> 0,
   status |-> 0, outcome |-> Null, newToken |-> "not asked"]

(* The POST /auth/refresh of authService.refreshToken, which goes through  *)
(* apiClient and its interceptors like every other request.                *)
NoRefresh == [pc |-> "none", promise |-> NoPromise, retry |-> FALSE]

(* The page after a login: both tokens in localStorage, or only the        *)
(* access token.                                                           *)
LoggedIn(stored) ==
  [loaded |-> TRUE, token |-> "t0", refreshToken |-> stored,
   isAuthenticated |-> TRUE, location |-> "/dashboard",
   refreshPromise |-> NoPromise,
   promise |-> [k \in Callers |-> "none"],
   caller |-> [k \in Callers |-> IdleCaller],
   request |-> [q \in ApiCalls |-> IdleRequest],
   refresh |-> NoRefresh, started |-> 0]

(* tokenStorage.clearTokens *)
clearTokens(c) == [c EXCEPT !.token = Null, !.refreshToken = Null]

(* AuthContext.logout, and ProtectedRoute which then renders the           *)
(* navigation to /login.                                                   *)
logout(c) ==
  [clearTokens(c) EXCEPT !.isAuthenticated = FALSE, !.location = "/login"]

(* options.onRefreshFailed?.(): only useAuthSession passes a callback.     *)
onRefreshFailed(c, k) == IF k = SessionHook THEN logout(c) ELSE c

(* The response interceptor after refreshToken has returned: with a token  *)
(* the request is sent again, with null it is rejected with its error.     *)
afterRefresh(c, q, newToken) ==
  IF newToken # Null
  THEN [c EXCEPT !.request[q].pc = "sent", !.request[q].sends = @ + 1,
                 !.request[q].newToken = newToken]
  ELSE [c EXCEPT !.request[q].pc = "done", !.request[q].outcome = "error",
                 !.request[q].newToken = Null]

(* refreshToken returns to its caller.                                     *)
returns(c, k, result) ==
  LET back == [c EXCEPT !.caller[k] =
                 [pc |-> "returned", awaits |-> @.awaits, result |-> result]]
  IN IF k \in ApiCalls THEN afterRefresh(back, k, result) ELSE back

(* A refresh manager that never finds a refresh in progress.               *)
refreshInProgress_Never(c) == c.refreshPromise # c.refreshPromise

(* if (this.refreshPromise) *)
refreshInProgress(c) == c.refreshPromise # NoPromise

(* TokenRefreshManager.refreshToken up to its await: a caller joins the    *)
(* refresh in progress, or gives up without a refresh token, or starts     *)
(* performRefresh, which sends POST /auth/refresh.                         *)
refreshToken(c, k) ==
  IF refreshInProgress(c)
  THEN [c EXCEPT !.caller[k] = [pc |-> "awaitOther",
                                awaits |-> c.refreshPromise, result |-> Null]]
  ELSE IF c.refreshToken = Null
  THEN returns(onRefreshFailed(c, k), k, Null)
  ELSE [c EXCEPT
          !.refreshPromise = k,
          !.promise[k] = "pending",
          !.refresh = [pc |-> "sent", promise |-> k, retry |-> FALSE],
          !.started = @ + 1,
          !.caller[k] = [pc |-> "awaitOwn", awaits |-> k, result |-> Null]]

Settled(c, k) == c.promise[k] \in {"fulfilled", "rejected"}

(* Continuations of a settled promise run before any other event.          *)
Draining(c) ==
  \E k \in Callers :
    /\ c.caller[k].pc \in {"awaitOwn", "awaitOther"}
    /\ Settled(c, c.caller[k].awaits)

(* A page calls apiClient; the request interceptor adds the stored token.  *)
apiRequest(q) ==
  /\ client.loaded /\ ~Draining(client)
  /\ client.request[q].pc = "idle"
  /\ \A o \in ApiCalls : o < q => client.request[o].pc # "idle"
  /\ client' = [client EXCEPT !.request[q].pc = "sent",
                              !.request[q].sends = 1]
  /\ UNCHANGED <<objects, documents, categories, auditLog, run, limiter>>

(* The response interceptor: a response is passed on; a 401 of a request   *)
(* not yet retried marks it and calls refreshToken; any other error is     *)
(* rejected.                                                               *)
apiResponse(q) ==
  /\ client.loaded /\ ~Draining(client)
  /\ client.request[q].pc = "sent"
  /\ \E status \in {200, 401, 500} :
       LET answered == [client EXCEPT !.request[q].status = status]
       IN client' =
            IF status = 200
            THEN [answered EXCEPT !.request[q].pc = "done",
                                  !.request[q].outcome = "response"]
            ELSE IF status = 401 /\ ~client.request[q].retry
            THEN refreshToken([answered EXCEPT
                                 !.request[q].retry = TRUE,
                                 !.request[q].refreshes = @ + 1,
                                 !.request[q].pc = "refreshing"], q)
            ELSE [answered EXCEPT !.request[q].pc = "done",
                                  !.request[q].outcome = "error"]
  /\ UNCHANGED <<objects, documents, categories, auditLog, run, limiter>>

(* useAuthSession: the stored token has expired when the page is shown.    *)
sessionRefresh ==
  /\ client.loaded /\ ~Draining(client)
  /\ client.caller[SessionHook].pc = "none"
  /\ client.isAuthenticated /\ client.token # Null
  /\ client' = refreshToken(client, SessionHook)
  /\ UNCHANGED <<objects, documents, categories, auditLog, run, limiter>>

(* The answer to POST /auth/refresh.  With 200 performRefresh stores the   *)
(* new tokens and its promise is fulfilled; an error other than 401 is     *)
(* rejected by the interceptor and so is the promise; a 401 makes the      *)
(* interceptor call refreshToken for the refresh request itself, which     *)
(* waits for the refreshPromise that this very request has to settle.      *)
refreshResponse ==
  /\ client.loaded /\ ~Draining(client)
  /\ client.refresh.pc = "sent"
  /\ \E status \in {200, 401, 500} :
       LET k == client.refresh.promise
       IN client' =
            IF status = 200
            THEN [client EXCEPT !.token = "t1", !.refreshToken = "r1",
                                !.promise[k] = "fulfilled",
                                !.refresh = NoRefresh]
            ELSE IF status = 401 /\ ~client.refresh.retry
                      /\ refreshInProgress(client)
            THEN [client EXCEPT !.refresh.retry = TRUE,
                                !.refresh.pc = "awaitOther",
                                !.refresh.promise = client.refreshPromise]
            ELSE [client EXCEPT !.promise[k] = "rejected",
                                !.refresh = NoRefresh]
  /\ UNCHANGED <<objects, documents, categories, auditLog, run, limiter>>

(* refreshToken after its await.  The caller that started the refresh      *)
(* continues first: it returns the token, or calls onRefreshFailed and     *)
(* returns null, and clears refreshPromise; a caller that joined returns   *)
(* the token or null.                                                      *)
refreshSettled(k) ==
  /\ client.loaded
  /\ client.caller[k].pc \in {"awaitOwn", "awaitOther"}
  /\ Settled(client, client.caller[k].awaits)
  /\ client.caller[k].pc = "awaitOther"
       => client.caller[client.caller[k].awaits].pc # "awaitOwn"
  /\ LET fulfilled == client.promise[client.caller[k].awaits] = "fulfilled"
         result == IF fulfilled THEN "t1" ELSE Null
     IN client' =
          IF client.caller[k].pc = "awaitOwn"
          THEN returns([(IF fulfilled THEN client
                         ELSE onRefreshFailed(client, k))
                          EXCEPT !.refreshPromise = NoPromise], k, result)
          ELSE returns(client, k, result)
  /\ UNCHANGED <<objects, documents, categories, auditLog, run, limiter>>

(* ------------------------- metadata update ---------------------------- *)

(* The bodies of PUT /api/files/:id that are tried.  "c9" is the id of no  *)
(* category.                                                               *)
UpdateBodies ==
  { NoUpdates,
    [NoUpdates EXCEPT !.fileName = "renamed.pdf"],
    [NoUpdates EXCEPT !.categoryId = "c2"],
    [NoUpdates EXCEPT !.categoryId = "c9"],
    [NoUpdates EXCEPT !.description = "text", !.tags = <<"t">>] }

(* The catch block of FileController.updateDocument. *)
updateDocumentStatus(message) ==
  IF includes(message, "Permission denied") THEN 403 ELSE 500

updateDocumentCode(message) ==
  IF updateDocumentStatus(message) = 403 THEN "PERMISSION_DENIED"
  ELSE "UPDATE_FAILED"

(* updateDocumentMetadata without the comparison of uploadedBy with the    *)
(* caller.                                                                 *)
updateDocumentMetadata_NoOwnerCheck(r) ==
  /\ CanStart(r)
  /\ \E u \in Users, id \in Targets, body \in UpdateBodies :
       LET rec == [IdleRun EXCEPT !.kind = "update", !.user = u,
                                  !.target = id, !.updates = body]
           found == getDocumentById(id)
           document == CHOOSE d \in found : TRUE
           thrown == {"not found"}
       IN run' = [run EXCEPT ![r] =
            IF found = {}
            THEN Respond(rec, updateDocumentStatus(thrown),
                         updateDocumentCode(thrown))
            ELSE [rec EXCEPT !.pc = "updateDocument", !.doc = document]]
  /\ UNCHANGED <<objects, documents, categories, auditLog>>

(* FileController.updateDocument and FileService.updateDocumentMetadata up *)
(* to the permission check: the body is copied into updates, the row is    *)
(* read, and a missing row or a caller who is not the uploader is an       *)
(* error answered by the catch block.                                      *)
updateDocumentMetadata(r) ==
  /\ CanStart(r)
  /\ \E u \in Users, id \in Targets, body \in UpdateBodies :
       LET rec == [IdleRun EXCEPT !.kind = "update", !.user = u,
                                  !.target = id, !.updates = body]
           found == getDocumentById(id)
           document == CHOOSE d \in found : TRUE
           thrown == IF found = {} THEN {"not found"}
                     ELSE {"Permission denied"}
       IN run' = [run EXCEPT ![r] =
            IF found = {} \/ document.uploadedBy # u
            THEN Respond(rec, updateDocumentStatus(thrown),
                         updateDocumentCode(thrown))
            ELSE [rec EXCEPT !.pc = "updateDocument", !.doc = document]]
  /\ UNCHANGED <<objects, documents, categories, auditLog>>

(* The row after UPDATE documents SET ... : file_name when data.fileName   *)
(* is truthy, category_id, description and tags when they are defined.     *)
updateRow(row, data) ==
  [row EXCEPT
     !.fileName = IF data.fileName # Null THEN data.fileName ELSE @,
     !.categoryId = IF data.categoryId # Null THEN data.categoryId ELSE @,
     !.description = IF data.description # Null THEN data.description ELSE @,
     !.tags = IF data.tags # Null THEN data.tags ELSE @]

(* FileMetadataService.updateDocument: updateById, whose RETURNING row is  *)
(* null when the row has gone (404); a category_id that is the id of no    *)
(* category violates the foreign key, which like any database error is     *)
(* answered 500 UPDATE_FAILED.                                             *)
updateDocument(r) ==
  /\ run[r].pc = "updateDocument"
  /\ LET found == getDocumentById(run[r].target)
         data == run[r].updates
     IN \/ /\ data.categoryId = Null \/ data.categoryId \in categories
           /\ documents' = (documents \ found)
                             \cup { updateRow(d, data) : d \in found }
           /\ run' = [run EXCEPT ![r] =
                IF found = {}
                THEN Respond(run[r], 404, "DOCUMENT_NOT_FOUND")
                ELSE Respond(run[r], 200, "UPDATED")]
        \/ \E m \in DbMessages :
             /\ documents' = documents
             /\ run' = [run EXCEPT ![r] =
                  Respond([run[r] EXCEPT !.dbFault = TRUE],
                          updateDocumentStatus(m), updateDocumentCode(m))]
  /\ UNCHANGED <<objects, categories, auditLog>>

(* ----------------------------- categories ------------------------------ *)

(* CategoryController.deleteCategory up to the existence check: only an    *)
(* administrator may ask, and a category that is not there is answered     *)
(* 404.                                                                    *)
deleteCategoryLookup(r) ==
  /\ CanStart(r)
  /\ \E admin \in BOOLEAN, id \in DefaultCategories :
       LET rec == [IdleRun EXCEPT !.kind = "deleteCategory",
                                  !.user = IF admin THEN "admin" ELSE "member",
                                  !.categoryId = id]
       IN run' = [run EXCEPT ![r] =
            IF ~admin THEN Respond(rec, 403, "INSUFFICIENT_PERMISSIONS")
            ELSE IF id \notin categories
            THEN Respond(rec, 404, "CATEGORY_NOT_FOUND")
            ELSE [rec EXCEPT !.pc = "getDocumentCount"]]
  /\ UNCHANGED <<objects, documents, categories, auditLog>>

(* The catch block of CategoryController.deleteCategory. *)
deleteCategoryStatus(message) ==
  IF includes(message, "contains documents") THEN 409 ELSE 500

deleteCategoryCode(message) ==
  IF deleteCategoryStatus(message) = 409 THEN "CATEGORY_HAS_DOCUMENTS"
  ELSE "DELETE_FAILED"

(* SELECT COUNT ... FROM documents WHERE category_id = $1 *)
documentCount(categoryId) ==
  Cardinality({ d \in documents : d.categoryId = categoryId })

(* deleteCategory that goes on to delete whatever the count is.           *)
getDocumentCount_NoCheck(r) ==
  /\ run[r].pc = "getDocumentCount"
  /\ run' = [run EXCEPT ![r] =
       [run[r] EXCEPT !.countSeen = documentCount(run[r].categoryId),
                      !.pc = "deleteById"]]
  /\ UNCHANGED <<objects, documents, categories, auditLog>>

(* CategoryService.deleteCategory, first await: the count of the documents *)
(* of the category; a count above zero is thrown as "Cannot delete         *)
(* category that contains documents".                                      *)
getDocumentCount(r) ==
  /\ run[r].pc = "getDocumentCount"
  /\ \/ LET count == documentCount(run[r].categoryId)
             rec == [run[r] EXCEPT !.countSeen = count]
             thrown == {"contains documents"}
         IN run' = [run EXCEPT ![r] =
              IF count > 0
              THEN Respond(rec, deleteCategoryStatus(thrown),
                           deleteCategoryCode(thrown))
              ELSE [rec EXCEPT !.pc = "deleteById"]]
     \/ \E m \in DbMessages :
          run' = [run EXCEPT ![r] =
            Respond([run[r] EXCEPT !.dbFault = TRUE],
                    deleteCategoryStatus(m), deleteCategoryCode(m))]
  /\ UNCHANGED <<objects, documents, categories, auditLog>>

(* category_id ... REFERENCES categories(id) ON DELETE SET NULL *)
onDeleteSetNull(categoryId) ==
  { IF d.categoryId = categoryId THEN [d EXCEPT !.categoryId = Null] ELSE d
    : d \in documents }

(* CategoryService.deleteCategory, second await: deleteById, true when a   *)
(* row went; the documents that name the category are set to NULL by the   *)
(* foreign key.                                                            *)
deleteById(r) ==
  /\ run[r].pc = "deleteById"
  /\ LET id == run[r].categoryId
         deleted == id \in categories
     IN \/ /\ categories' = categories \ {id}
           /\ documents' = IF deleted THEN onDeleteSetNull(id) ELSE documents
           /\ run' = [run EXCEPT ![r] =
                IF deleted THEN Respond(run[r], 200, "CATEGORY_DELETED")
                ELSE Respond(run[r], 500, "DELETE_FAILED")]
        \/ \E m \in DbMessages :
             /\ UNCHANGED <<categories, documents>>
             /\ run' = [run EXCEPT ![r] =
                  Respond([run[r] EXCEPT !.dbFault = TRUE],
                          deleteCategoryStatus(m), deleteCategoryCode(m))]
  /\ UNCHANGED <<objects, auditLog>>

(* --------------------------- specification ----------------------------- *)

Next ==
  \E r \in Runs :
    \/ uploadFileSecurity(r) /\ UNCHANGED <<categories, limiter, client>>
    \/ uploadFileValidate(r) /\ UNCHANGED <<categories, limiter, client>>
    \/ s3UploadFile(r) /\ UNCHANGED <<categories, limiter, client>>
    \/ createDocument(r) /\ UNCHANGED <<categories, limiter, client>>
    \/ deleteDocumentLookup(r) /\ UNCHANGED <<categories, limiter, client>>
    \/ deleteDocumentAuthorize(r) /\ UNCHANGED <<categories, limiter, client>>
    \/ deleteFile(r) /\ UNCHANGED <<categories, limiter, client>>
    \/ deleteDocumentMetadata(r) /\ UNCHANGED <<categories, limiter, client>>
    \/ getUrlLookup(r) /\ UNCHANGED <<categories, limiter, client>>
    \/ getUrlService(r) /\ UNCHANGED <<categories, limiter, client>>
    \/ fileExists(r) /\ UNCHANGED <<categories, limiter, client>>
    \/ generatePresignedUrl(r) /\ UNCHANGED <<categories, limiter, client>>

Spec == Init /\ [][Next]_vars

(* The catalogue: documents in categories.  One document of u1 is filed   *)
(* under c1 when the observation starts; requests upload into a category,  *)
(* update metadata, delete documents and delete categories.                *)
CatalogDocs ==
  { [d EXCEPT !.categoryId = "c1"] : d \in { s \in SeedDocs : s.id = SeedTarget } }

InitCatalog ==
  /\ documents = CatalogDocs
  /\ objects = { d.s3Key : d \in CatalogDocs }
  /\ categories = DefaultCategories
  /\ auditLog = {}
  /\ run = [r \in Runs |-> IdleRun]
  /\ limiter = NoLimiter
  /\ client = NoClient

(* An upload of a valid file that may name a category. *)
uploadIntoCategory(r) ==
  uploadFileRequest(r, {File(10 * MB, TRUE, TRUE)},
                    {Null} \cup DefaultCategories)

NextCatalog ==
  \E r \in Runs :
    \/ uploadIntoCategory(r) /\ UNCHANGED <<categories, limiter, client>>
    \/ uploadFileValidate(r) /\ UNCHANGED <<categories, limiter, client>>
    \/ s3UploadFile(r) /\ UNCHANGED <<categories, limiter, client>>
    \/ createDocument(r) /\ UNCHANGED <<categories, limiter, client>>
    \/ deleteDocumentLookup(r) /\ UNCHANGED <<categories, limiter, client>>
    \/ deleteDocumentAuthorize(r) /\ UNCHANGED <<categories, limiter, client>>
    \/ deleteFile(r) /\ UNCHANGED <<categories, limiter, client>>
    \/ deleteDocumentMetadata(r) /\ UNCHANGED <<categories, limiter, client>>
    \/ updateDocumentMetadata(r) /\ UNCHANGED <<limiter, client>>
    \/ updateDocument(r) /\ UNCHANGED <<limiter, client>>
    \/ deleteCategoryLookup(r) /\ UNCHANGED <<limiter, client>>
    \/ getDocumentCount(r) /\ UNCHANGED <<limiter, client>>
    \/ deleteById(r) /\ UNCHANGED <<limiter, client>>

SpecCatalog == InitCatalog /\ [][NextCatalog]_vars

(* Access URLs and their use: read requests mint URLs, clients present    *)
(* them to S3.                                                             *)
NextAccess ==
  \E r \in Runs :
    \/ getUrlLookup(r) /\ UNCHANGED <<categories, limiter, client>>
    \/ getUrlService(r) /\ UNCHANGED <<categories, limiter, client>>
    \/ fileExists(r) /\ UNCHANGED <<categories, limiter, client>>
    \/ generatePresignedUrl(r) /\ UNCHANGED <<categories, limiter, client>>
    \/ s3GetObject(r) /\ UNCHANGED <<limiter, client>>

SpecAccess == Init /\ [][NextAccess]_vars

(* Storage statistics next to uploads and deletes.  The table may start   *)
(* empty, with u1 at 490MB, or with u1 above the cap: two uploads of 10MB  *)
(* that both read a usage of 490MB before either inserted its row.         *)
RacedDocs ==
  { [d EXCEPT !.id = Cardinality(SeedIds) + d.id,
              !.s3Key = SeedKey(Cardinality(SeedIds) + d.id),
              !.fileSize = 10 * MB]
    : d \in { s \in SeedDocs :
               s.id = SeedTarget \/ s.id = SeedTarget + 1 } }

InitQuota ==
  /\ \E seeded \in {"empty", "full", "over"} :
       LET docs == IF seeded = "empty" THEN {}
                   ELSE IF seeded = "full" THEN SeedDocs
                   ELSE SeedDocs \cup RacedDocs
       IN /\ documents = docs
          /\ objects = { d.s3Key : d \in docs }
  /\ categories = DefaultCategories
  /\ auditLog = {}
  /\ run = [r \in Runs |-> IdleRun]
  /\ limiter = NoLimiter
  /\ client = NoClient

(* An upload of a file that passes every check but, perhaps, the quota. *)
uploadValidFile(r) ==
  uploadFileRequest(r, {File(10 * MB, TRUE, TRUE), File(20 * MB, TRUE, TRUE)},
                    {Null})

NextQuota ==
  \E r \in Runs :
    \/ uploadValidFile(r) /\ UNCHANGED <<categories, limiter, client>>
    \/ uploadFileValidate(r) /\ UNCHANGED <<categories, limiter, client>>
    \/ s3UploadFile(r) /\ UNCHANGED <<categories, limiter, client>>
    \/ createDocument(r) /\ UNCHANGED <<categories, limiter, client>>
    \/ deleteDocumentLookup(r) /\ UNCHANGED <<categories, limiter, client>>
    \/ deleteDocumentAuthorize(r) /\ UNCHANGED <<categories, limiter, client>>
    \/ deleteFile(r) /\ UNCHANGED <<categories, limiter, client>>
    \/ deleteDocumentMetadata(r) /\ UNCHANGED <<categories, limiter, client>>
    \/ getStorageStats(r) /\ UNCHANGED <<limiter, client>>
    \/ getUserStorageStats(r) /\ UNCHANGED <<limiter, client>>

SpecQuota == InitQuota /\ [][NextQuota]_vars

(* The content validation of one upload followed by its storage.  The     *)
(* validations of different requests share no state, so one request is     *)
(* followed.                                                               *)
FirstRun == { r \in Runs : \A q \in Runs : r <= q }

NextValidator ==
  \E r \in FirstRun :
    \/ validateFileRequest(r) /\ UNCHANGED <<limiter, client>>
    \/ scanFile(r) /\ UNCHANGED <<limiter, client>>
    \/ uploadFileVerdict(r) /\ UNCHANGED <<limiter, client>>
    \/ uploadFileValidate(r) /\ UNCHANGED <<categories, limiter, client>>
    \/ s3UploadFile(r) /\ UNCHANGED <<categories, limiter, client>>
    \/ createDocument(r) /\ UNCHANGED <<categories, limiter, client>>

SpecValidator == Init /\ [][NextValidator]_vars

(* The rate limiter alone: requests of the clients and the passing of      *)
(* time.                                                                   *)
NextRateLimit ==
  \/ \E clientId \in Clients : authRateLimit(clientId)
  \/ tick

InitRateLimit ==
  /\ documents = {}
  /\ objects = {}
  /\ categories = DefaultCategories
  /\ auditLog = {}
  /\ run = [r \in Runs |-> IdleRun]
  /\ limiter = NoLimiter
  /\ client = NoClient

SpecRateLimit == InitRateLimit /\ [][NextRateLimit]_vars

(* The web client after a login: API requests, the session hook, and the  *)
(* answers of the server.                                                  *)
InitClient ==
  /\ documents = {}
  /\ objects = {}
  /\ categories = DefaultCategories
  /\ auditLog = {}
  /\ run = [r \in Runs |-> IdleRun]
  /\ limiter = NoLimiter
  /\ \E stored \in {"r0", Null} : client = LoggedIn(stored)

NextClient ==
  \/ \E q \in ApiCalls : apiRequest(q)
  \/ \E q \in ApiCalls : apiResponse(q)
  \/ sessionRefresh
  \/ refreshResponse
  \/ \E k \in Callers : refreshSettled(k)

SpecClient == InitClient /\ [][NextClient]_vars

(* Every event that is due is handled in the end.                          *)
SpecClientFair == SpecClient /\ WF_vars(NextClient)

(* ------------------------------ claims --------------------------------- *)

Finished(r) == run[r].pc = "done"

IsUpload(r) == run[r].kind = "upload"

IsDelete(r) == run[r].kind = "delete"

IsRead(r) == run[r].kind \in {"download", "view"}

CallsOf(r, op) ==
  { i \in 1..Len(run[r].calls) : run[r].calls[i].op = op }

Made(r, op, ok) ==
  \E i \in CallsOf(r, op) : run[r].calls[i].ok = ok

Last(seq) == seq[Len(seq)]

(* The run whose step this is. *)
StepOf(r) == run'[r] # run[r]

(* C1: whenever the put of an upload succeeded and the create that         *)
(* followed it failed, the finished run has called the Object Store        *)
(* delete with exactly the key the put returned, and the Audit Sink holds  *)
(* a record of the failed upload.                                          *)
C1_CompensatingDelete ==
  \A r \in Runs :
    (IsUpload(r) /\ Finished(r) /\ Made(r, "put", TRUE)
       /\ Made(r, "create", FALSE))
    => /\ \E i \in CallsOf(r, "s3delete") : run[r].calls[i].key = run[r].key
       /\ \E a \in auditLog :
            a.run = r /\ a.action = "upload" /\ ~a.success

(* C2: once every run has finished, each object that no metadata row       *)
(* references has its storage key and the persistence error on record in   *)
(* the Audit Sink.                                                         *)
Orphans == { k \in objects : \A d \in documents : d.s3Key # k }

C2_OrphansAudited ==
  (\A r \in Runs : run[r].pc \in {"idle", "done"})
  => \A k \in Orphans :
       \E a \in auditLog :
         a.s3Key = k /\ ~a.success /\ a.errorMessage # "none"

(* C3: an upload whose size added to the usage read by its quota check     *)
(* exceeds 500MB is rejected at validation with no put, and a put is only  *)
(* ever made by a run whose quota check has passed.                        *)
C3_QuotaBeforePut ==
  \A r \in Runs :
    IsUpload(r) =>
      /\ (run[r].quotaSeen >= 0
            /\ run[r].quotaSeen + run[r].file.size > 500 * MB)
         => /\ Finished(r)
            /\ run[r].status = 400
            /\ run[r].failedStage = "Validating"
            /\ CallsOf(r, "put") = {}
      /\ CallsOf(r, "put") # {}
         => /\ run[r].quotaSeen >= 0
            /\ run[r].quotaSeen + run[r].file.size <= 500 * MB

C3_Witness ==
  \E r \in Runs :
    /\ IsUpload(r) /\ Finished(r)
    /\ run[r].quotaSeen = 490 * MB
    /\ run[r].file.size = 20 * MB
    /\ run[r].failedStage = "Validating"

(* C4: a run rejected at Validating has made no put, no delete and no      *)
(* create, and no step of an upload that is still validating (its         *)
(* rejection included) changes the stored objects or the metadata rows.   *)
ValidatingStep(r) ==
  /\ StepOf(r)
  /\ run'[r].kind = "upload"
  /\ run[r].pc \in {"idle", "validateFile"}

C4_RejectionHasNoEffect ==
  /\ [](\A r \in Runs :
         (IsUpload(r) /\ run[r].failedStage = "Validating")
         => /\ Finished(r)
            /\ run[r].calls = <<>>
            /\ run[r].key = NoKey)
  /\ [][\A r \in Runs :
          ValidatingStep(r) => objects' = objects /\ documents' = documents]_vars

C4_Witness ==
  \E r \in Runs :
    /\ IsUpload(r) /\ Finished(r)
    /\ run[r].failedStage = "Validating"
    /\ run[r].quotaSeen >= 0
    /\ objects # {} /\ documents # {}

(* C5: a run whose put failed never calls create, holds no storage key,    *)
(* and leaves neither an object nor a metadata row of its own behind.      *)
C5_FailedPutPersistsNothing ==
  \A r \in Runs :
    (IsUpload(r) /\ Made(r, "put", FALSE))
    => /\ Finished(r)
       /\ run[r].failedStage = "Storing"
       /\ CallsOf(r, "create") = {}
       /\ run[r].key = NoKey
       /\ \A k \in objects : k.uuid # uuidv4(r)
       /\ \A d \in documents : d.id # generateId(r)

C5_Witness ==
  \E r \in Runs :
    IsUpload(r) /\ Finished(r) /\ Made(r, "put", FALSE)

(* C6: the stages of an upload run are a prefix of Validating, Storing,    *)
(* Persisting, Complete, or such a prefix cut short by Failed; the run is  *)
(* finished exactly when the last stage is Complete or Failed; and every   *)
(* metadata row that an upload created belongs to a run that ended in      *)
(* Complete after a successful put and a successful create, in that order. *)
HappyPath == <<"Validating", "Storing", "Persisting", "Complete">>

StagePaths ==
  { SubSeq(HappyPath, 1, n) : n \in 1..4 }
  \cup { Append(SubSeq(HappyPath, 1, n), "Failed") : n \in 1..3 }

C6_StagesInOrder ==
  /\ \A r \in Runs :
       IsUpload(r) =>
         /\ run[r].stages \in StagePaths
         /\ Finished(r) <=> Last(run[r].stages) \in {"Complete", "Failed"}
         /\ Last(run[r].stages) = "Failed"
            <=> run[r].failedStage \in {"Validating", "Storing", "Persisting"}
         /\ Last(run[r].stages) = "Complete" => run[r].status = 201
         /\ Last(run[r].stages) = "Failed" => run[r].status = 400
  /\ \A d \in documents \ SeedDocs :
       \E r \in Runs :
         /\ IsUpload(r)
         /\ run[r].doc = d
         /\ run[r].stages = HappyPath
         /\ [i \in 1..Len(run[r].calls) |->
               <<run[r].calls[i].op, run[r].calls[i].ok>>]
            = << <<"put", TRUE>>, <<"create", TRUE>> >>
  /\ \A r \in Runs :
       (IsUpload(r) /\ Made(r, "create", TRUE))
       => run[r].stages = HappyPath

C6_Witness ==
  /\ \E r \in Runs : IsUpload(r) /\ run[r].stages = HappyPath
  /\ \E r \in Runs : IsUpload(r) /\ run[r].failedStage = "Persisting"

(* C7: a delete run calls the metadata delete only after its Object Store  *)
(* delete has succeeded; a run whose Object Store delete failed never      *)
(* calls the metadata delete and is answered 500; and a metadata row       *)
(* disappears only in a step of a delete run of that document whose        *)
(* Object Store delete has already succeeded.                              *)
C7_Step ==
  /\ \A d \in documents \ documents' :
       \E r \in Runs :
         /\ StepOf(r) /\ IsDelete(r)
         /\ run[r].target = d.id
         /\ Made(r, "s3delete", TRUE)
         /\ d.s3Key \notin objects
  /\ \A r \in Runs :
       (StepOf(r) /\ run'[r].kind = "delete"
          /\ \E i \in 1..Len(run'[r].calls) :
               run'[r].calls[i] = Call("s3delete", run[r].doc.s3Key, FALSE))
       => documents' = documents

C7_ObjectBeforeRow ==
  /\ [](\A r \in Runs :
         IsDelete(r) =>
           /\ \A j \in CallsOf(r, "dbdelete") :
                \E i \in CallsOf(r, "s3delete") :
                  i < j /\ run[r].calls[i].ok
           /\ Made(r, "s3delete", FALSE)
              => /\ Finished(r)
                 /\ run[r].status = 500
                 /\ CallsOf(r, "dbdelete") = {})
  /\ [][C7_Step]_vars

C7_Witness ==
  \E r \in Runs :
    /\ IsDelete(r) /\ Finished(r) /\ Made(r, "s3delete", FALSE)
    /\ getDocumentById(run[r].target) = {run[r].doc}
    /\ run[r].doc.s3Key \in objects

(* C8: a delete run that found the object of its document already missing  *)
(* and met no service error from the Object Store or the database is       *)
(* answered 200 with the metadata row gone and the success logged, unless  *)
(* another delete run removed the row first.                               *)
C8_DeleteOfMissingObject ==
  \A r \in Runs :
    (IsDelete(r) /\ Finished(r) /\ run[r].existsSeen = "absent"
       /\ run[r].gateway # "StorageUnavailable" /\ ~run[r].dbFault)
    => \/ /\ run[r].status = 200
          /\ getDocumentById(run[r].target) = {}
          /\ \E a \in auditLog :
               a.run = r /\ a.action = "delete" /\ a.success
       \/ \E q \in Runs \ {r} :
            /\ IsDelete(q) /\ run[q].target = run[r].target
            /\ Made(q, "dbdelete", TRUE)

C8_Witness ==
  \E r \in Runs :
    /\ IsDelete(r) /\ Finished(r)
    /\ run[r].existsSeen = "absent"
    /\ run[r].status = 200

(* C9: a download or view run whose existence check found the object of    *)
(* its metadata row missing is answered 404 DOCUMENT_NOT_FOUND without an  *)
(* access URL; an access URL is only ever returned, with status 200, for   *)
(* an object the check found present; every finished read run carries one  *)
(* of the statuses 200, 404 and 500.                                       *)
C9_DocumentGone ==
  \A r \in Runs :
    IsRead(r) =>
      /\ run[r].gateway = "NotFound"
         => /\ Finished(r)
            /\ run[r].status = 404
            /\ run[r].code = "DOCUMENT_NOT_FOUND"
            /\ run[r].url = NoUrl
      /\ run[r].url # NoUrl
         => /\ run[r].status = 200
            /\ run[r].existsSeen = "present"
            /\ run[r].gateway = "ok"
            /\ run[r].url.key = run[r].doc.s3Key
      /\ Finished(r) => run[r].status \in {200, 404, 500}

C9_Witness ==
  \E r \in Runs :
    /\ IsRead(r) /\ Finished(r)
    /\ run[r].gateway = "NotFound"
    /\ getDocumentById(run[r].target) # {}

(* C10: a run that met a service error of the Object Store is never        *)
(* answered as not found, and a run whose key the Object Store reported    *)
(* missing is never answered as a service failure.                         *)
C10_StorageUnavailableDistinct ==
  \A r \in Runs :
    Finished(r) =>
      /\ run[r].gateway = "StorageUnavailable"
         => run[r].status # 404 /\ run[r].code # "DOCUMENT_NOT_FOUND"
      /\ run[r].gateway = "NotFound" => run[r].status = 404

(* C11: only the uploader of a document may delete it.  A delete request   *)
(* whose caller is not the uploader of the row it found calls neither S3   *)
(* nor the database to delete, none of its steps changes the bucket or     *)
(* the table, and it is answered 403 PERMISSION_DENIED (unless the row     *)
(* was removed by its uploader before the service read it again).          *)
NotUploader(r) ==
  /\ IsDelete(r)
  /\ run[r].doc # NoRow
  /\ run[r].doc.uploadedBy # run[r].user

C11_Step ==
  \A r \in Runs :
    NotUploader(r) /\ StepOf(r) => UNCHANGED <<objects, documents>>

IsUpdate(r) == run[r].kind = "update"

Immutable(d) ==
  [id |-> d.id, s3Key |-> d.s3Key, fileSize |-> d.fileSize,
   uploadedBy |-> d.uploadedBy, securityMetadata |-> d.securityMetadata]

C12_Step ==
  \A r \in Runs :
    StepOf(r) /\ run'[r].kind = "update" =>
      /\ objects' = objects
      /\ { Immutable(d) : d \in documents' } = { Immutable(d) : d \in documents }
      /\ Cardinality(documents') = Cardinality(documents)
      /\ \A d \in documents \ documents' :
           d.id = run'[r].target /\ d.uploadedBy = run'[r].user
      /\ \A d \in getDocumentById(run'[r].target) :
           d.uploadedBy # run'[r].user =>
             /\ documents' = documents
             /\ run'[r].pc = "done"
             /\ run'[r].status = 403 /\ run'[r].code = "PERMISSION_DENIED"

IsDeleteCategory(r) == run[r].kind = "deleteCategory"

C13_Step ==
  \A r \in Runs :
    StepOf(r) /\ IsDeleteCategory(r) =>
      /\ run[r].pc = "getDocumentCount" /\ documentCount(run[r].categoryId) > 0
           /\ ~run'[r].dbFault
           => /\ run'[r].pc = "done"
              /\ run'[r].status = 409
              /\ run'[r].code = "CATEGORY_HAS_DOCUMENTS"
      /\ run[r].countSeen # 0 => categories' = categories

C13_CategoryDeleteConflict ==
  /\ [](\A r \in Runs :
         IsDeleteCategory(r) /\ Finished(r) /\ ~run[r].dbFault =>
           /\ run[r].countSeen > 0 =>
                run[r].status = 409 /\ run[r].code = "CATEGORY_HAS_DOCUMENTS"
           /\ run[r].countSeen = 0 =>
                /\ run[r].categoryId \notin categories
                /\ \/ run[r].status = 200
                   \/ \E q \in Runs \ {r} :
                        /\ IsDeleteCategory(q) /\ run[q].status = 200
                        /\ run[q].categoryId = run[r].categoryId)
  /\ [][C13_Step]_vars

(* The document filed under the category was deleted or moved to another   *)
(* category by its uploader, and the category delete that followed found   *)
(* no document and succeeded.                                              *)
C13_Witness ==
  \E r, q \in Runs :
    /\ IsDeleteCategory(r) /\ Finished(r) /\ run[r].status = 200
    /\ run[r].countSeen = 0
    /\ run[q].kind \in {"update", "delete"} /\ Finished(q)
    /\ run[q].status = 200 /\ q < r
    /\ run[q].doc.categoryId = run[r].categoryId
    /\ documentCount(run[r].categoryId) = 0

(* C14: the reference check and the delete of a category act atomically   *)
(* under every interleaving with an upload into the category: whenever a   *)
(* step removes a category row, no Document that an upload has inserted    *)
(* references that category at that moment.                                *)
Inserted(r) ==
  /\ IsUpload(r) /\ Finished(r) /\ run[r].status = 201
  /\ run[r].doc \in documents

C14_Step ==
  \A c \in categories \ categories' :
    \A r \in Runs : Inserted(r) => run[r].doc.categoryId # c

C14_CheckAndDeleteAtomic == [][C14_Step]_vars

(* C15: storage keys are unique, immutable and never reused.  No two rows  *)
(* of the table share a storage key; the key an upload has put its bytes   *)
(* under is the key of no other upload, finished, failed or deleted since, *)
(* and of no document stored before; and no step changes the storage key   *)
(* of a row.                                                               *)
KeyOf(r) == run[r].key

C15_Step ==
  \A d \in documents : \A e \in documents' : d.id = e.id => d.s3Key = e.s3Key

C15_StorageKeys ==
  /\ [](/\ \A d, e \in documents : d.s3Key = e.s3Key => d = e
        /\ \A r \in Runs :
             IsUpload(r) /\ KeyOf(r) # NoKey =>
               /\ \A q \in Runs \ {r} : KeyOf(q) # KeyOf(r)
               /\ \A d \in CatalogDocs : d.s3Key # KeyOf(r)
               /\ \A d \in documents : d.s3Key = KeyOf(r) => d.id = generateId(r))
  /\ [][C15_Step]_vars

(* An upload has been accepted for a user whose earlier upload stored its  *)
(* bytes and then failed; both objects are in the bucket.                  *)
C15_Witness ==
  \E r, q \in Runs :
    /\ r < q /\ IsUpload(r) /\ IsUpload(q) /\ run[r].user = run[q].user
    /\ Finished(r) /\ run[r].status = 400 /\ KeyOf(r) # NoKey
    /\ Finished(q) /\ run[q].status = 201 /\ run[q].doc \in documents
    /\ KeyOf(r) \in objects /\ KeyOf(q) \in objects

(* C16: every upload, download and delete attempt produces an audit record *)
(* that states its actual outcome: a request that has been answered has a  *)
(* record of its own whose success flag is TRUE exactly when the answer    *)
(* is a 2xx.  A POST that carries no file is not counted as an attempt.    *)
Succeeded(r) == run[r].status \in {200, 201}

C16_EveryAttemptAudited ==
  \A r \in Runs :
    /\ Finished(r) /\ run[r].kind \in {"upload", "download", "delete"}
    /\ run[r].code # "NO_FILE"
    => /\ \E a \in auditLog : a.run = r
       /\ \A a \in auditLog : a.run = r => a.success = Succeeded(r)

(* C17: an access URL is bound to the disposition it was requested with.   *)
(* Whenever S3 serves the bytes for a presented URL, the disposition of    *)
(* the response is attachment if the URL was minted by a download request  *)
(* and inline if it was minted by a view request; a URL presented with     *)
(* the other disposition is refused.                                       *)
Requested(r) == IF run[r].kind = "download" THEN "attachment" ELSE "inline"

C17_DispositionBound ==
  \A r \in Runs :
    run[r].fetch # NoFetch =>
      /\ run[r].fetch.status = 200 => run[r].fetch.disposition = Requested(r)
      /\ run[r].fetch.disposition # Requested(r) => run[r].fetch.status = 403

(* A view URL presented as attachment and a download URL presented as      *)
(* inline were both refused.                                               *)
C17_Witness ==
  \E r, q \in Runs :
    /\ run[r].kind = "view" /\ run[r].fetch.disposition = "attachment"
    /\ run[r].fetch.status = 403
    /\ run[q].kind = "download" /\ run[q].fetch.disposition = "inline"
    /\ run[q].fetch.status = 403

(* C18: the remaining quota reported for a user is a non-negative integer  *)
(* equal to max(0, cap - usage), where usage is the sum of the byte sizes  *)
(* of the documents the user owns when the sum is read.                    *)
IsStats(r) == run[r].kind = "stats"

Usage(u) == SumSizes({ d \in documents : d.uploadedBy = u })

C18_Step ==
  \A r \in Runs :
    StepOf(r) /\ run[r].pc = "totalSize" /\ run'[r].status = 200 =>
      LET left == MAX_TOTAL_SIZE_PER_USER - Usage(run[r].user)
      IN run'[r].stats.remainingQuota = IF left > 0 THEN left ELSE 0

C18_RemainingQuota ==
  /\ [](\A r \in Runs :
         IsStats(r) /\ run[r].status = 200 =>
           /\ run[r].stats.remainingQuota \in Nat
           /\ run[r].stats.remainingQuota <= MAX_TOTAL_SIZE_PER_USER)
  /\ [][C18_Step]_vars

(* Statistics were answered for a user whose usage is above the cap, and   *)
(* the remaining quota reported is zero.                                   *)
C18_Witness ==
  \E r \in Runs :
    /\ IsStats(r) /\ run[r].status = 200
    /\ run[r].stats.totalSize > MAX_TOTAL_SIZE_PER_USER
    /\ run[r].stats.remainingQuota = 0

(* C19: for every accepted upload the declared content type and the type   *)
(* detected from the leading bytes match, or the mismatch is recorded as   *)
(* a warning in the security metadata of the Document.                     *)
MismatchWarnings ==
  { "File signature indicates another type than declared",
    "File declared as text but contains binary data",
    "Could not verify file signature for declared MIME type" }

Accepted(r) ==
  /\ IsUpload(r) /\ Finished(r) /\ run[r].status = 201
  /\ run[r].doc \in documents

C19_MismatchRecorded ==
  \A r \in Runs :
    Accepted(r) =>
      LET declared == run[r].upload.mimeType
          security == run[r].doc.securityMetadata
          detected == security.detectedMimeType
          warnings == security.securityWarnings
      IN detected # Null /\ detected # declared =>
           \E i \in 1..Len(warnings) : warnings[i] \in MismatchWarnings

(* C20: the Content Validator short-circuits on a hard failure: once a     *)
(* check has rejected the file no later check is performed, so the         *)
(* external malware scan is never invoked for a file that an earlier       *)
(* check has rejected.                                                     *)
C20_ScanNeverAfterRejection ==
  \A r \in Runs : "scan" \notin run[r].validation.rejectedAt

(* C21: with the external malware scan enabled, a reported infection       *)
(* always rejects the file, and a scan error never rejects it: the file    *)
(* is valid exactly if the checks before the scan passed, and the scan     *)
(* error is in the warning list.                                           *)
Scanned(r) ==
  /\ run[r].upload.scanEnabled
  /\ "scan" \in { run[r].validation.performed[i] :
                    i \in 1..Len(run[r].validation.performed) }

ScanWarned(r) ==
  \E i \in 1..Len(run[r].validation.warnings) :
    run[r].validation.warnings[i] = "Virus scan warning"

C21_InfectionRejectsErrorFailsOpen ==
  \A r \in Runs :
    Scanned(r) =>
      LET result == run[r].validation
          up == run[r].upload
          virusScanResult == result.metadata.virusScanResult
          before == securityChecks(up.buffer, up.originalName, up.mimeType)
      IN /\ ~virusScanResult.isClean =>
              /\ ~result.isValid
              /\ run[r].status # 201
              /\ run[r].doc \notin documents
         /\ (virusScanResult.isClean /\ virusScanResult.errorMessage # Null)
              => /\ result.isValid = before.isValid
                 /\ ScanWarned(r)

(* A file whose scan failed has been accepted and stored with the scan     *)
(* error among its warnings.                                               *)
C21_Witness ==
  \E r \in Runs :
    /\ Scanned(r)
    /\ run[r].validation.metadata.virusScanResult.errorMessage # Null
    /\ ScanWarned(r)
    /\ run[r].status = 201
    /\ run[r].doc \in documents

(* C22: a file whose first bytes match an entry of the dangerous-signature *)
(* blocklist is rejected by the Content Validator for every declared       *)
(* content type and every filename: it is answered 400 and never stored.   *)
Validated(r) == IsUpload(r) /\ run[r].validation.performed # <<>>

Blocklisted(buffer) ==
  \E k \in 1..Len(dangerousSignatures) :
    startsWith(buffer.bytes, dangerousSignatures[k])

SecurityRejected(r) ==
  /\ ~run[r].validation.isValid
  /\ run[r].doc \notin documents
  /\ run[r].key = NoKey
  /\ Finished(r) => /\ run[r].status = 400
                    /\ run[r].code = "FILE_SECURITY_VALIDATION_FAILED"

C22_BlocklistedRejected ==
  \A r \in Runs :
    (Validated(r) /\ Blocklisted(run[r].upload.buffer)) => SecurityRejected(r)

(* A Windows executable named report.pdf and declared application/pdf has  *)
(* been answered 400.                                                      *)
C22_Witness ==
  \E r \in Runs :
    /\ Validated(r) /\ Finished(r)
    /\ startsWith(run[r].upload.buffer.bytes, dangerousSignatures[1])
    /\ Len(run[r].upload.buffer.bytes) >= 4
    /\ run[r].upload.mimeType = "application/pdf"
    /\ run[r].upload.originalName = <<"report", "pdf">>
    /\ run[r].status = 400

(* C23: a file named invoice.pdf.exe is rejected by the Content            *)
(* Validator's filename check for its double extension, whatever its       *)
(* bytes and its declared content type are.                                *)
C23_DoubleExtensionRejected ==
  \A r \in Runs :
    (IsUpload(r) /\ run[r].upload.originalName = <<"invoice", "pdf", "exe">>)
    => ~validateFileName(run[r].upload.originalName,
                         run[r].upload.mimeType).isValid

(* C24: a zero-byte file is rejected by the Content Validator for every    *)
(* declared content type and every filename: the checks find it invalid    *)
(* and empty, and the upload is answered 400 and never stored.             *)
ZeroByte(r) == IsUpload(r) /\ Len(run[r].upload.buffer.bytes) = 0

C24_ZeroByteRejected ==
  \A r \in Runs :
    ZeroByte(r) =>
      LET up == run[r].upload
          result == securityChecks(up.buffer, up.originalName, up.mimeType)
      IN /\ ~result.isValid
         /\ \E i \in 1..Len(result.errors) : result.errors[i] = "File is empty"
         /\ Validated(r) => SecurityRejected(r)

(* An empty file declared text/plain has been answered 400.                *)
C24_Witness ==
  \E r \in Runs :
    /\ ZeroByte(r) /\ Validated(r) /\ Finished(r)
    /\ run[r].upload.mimeType = "text/plain"
    /\ run[r].status = 400

(* C28: for every declared content type that has entries in the signature  *)
(* table, a file whose leading bytes start with one of that type's own     *)
(* signatures passes the signature-match check: its detected type equals   *)
(* the declared type and the check raises no error, also for the types     *)
(* that share a signature with another type.                               *)
OwnSignature(buffer, mimeType) ==
  \E i \in 1..Len(fileSignatures) :
    /\ fileSignatures[i].mimeType = mimeType
    /\ \E k \in 1..Len(fileSignatures[i].signatures) :
         startsWith(signatureOf(buffer), fileSignatures[i].signatures[k])

C28_OwnSignaturePasses ==
  \A r \in Runs :
    (Validated(r) /\ OwnSignature(run[r].upload.buffer, run[r].upload.mimeType))
    => /\ run[r].validation.metadata.detectedMimeType = run[r].upload.mimeType
       /\ validateFileSignature(run[r].upload.buffer,
                                run[r].upload.mimeType).isValid

(* C27: under every interleaving of concurrent uploads by the same user    *)
(* the sum of the sizes of that user's Documents never exceeds the         *)
(* per-user cap: two uploads that passed the quota check against the same  *)
(* usage are not both persisted when together they exceed the cap.         *)
C27_QuotaNeverExceeded ==
  \A u \in Users : Usage(u) <= MAX_TOTAL_SIZE_PER_USER

(* C26: the rate-limit counter map admits at most maxAttempts requests of  *)
(* one client within one window of windowMs; a request that arrives while  *)
(* the client's count has reached maxAttempts and the window has not       *)
(* expired is answered 429 and not passed on; the first request after the  *)
(* window's reset time is admitted and starts a new window with count 1.   *)
AdmittedInWindow(c, start, end) ==
  { i \in 1..Len(limiter.served) :
      /\ limiter.served[i].client = c
      /\ limiter.served[i].passed
      /\ limiter.served[i].at >= start
      /\ limiter.served[i].at <= end }

WindowStarts(i) ==
  /\ limiter.served[i].passed
  /\ limiter.served[i].count = 1

C26_Inv ==
  \A i \in 1..Len(limiter.served) :
    WindowStarts(i) =>
      Cardinality(AdmittedInWindow(limiter.served[i].client,
                                   limiter.served[i].at,
                                   limiter.served[i].at + windowMs))
        <= maxAttempts

C26_Step ==
  \A c \in Clients :
    (/\ Len(limiter'.served) = Len(limiter.served) + 1
     /\ limiter'.served[Len(limiter'.served)].client = c)
    => LET answer == limiter'.served[Len(limiter'.served)]
           now == limiter.now
       IN \A e \in limiter.attempts :
            e.key = c =>
              /\ (e.count >= maxAttempts /\ now <= e.resetTime)
                   => /\ answer.status = 429
                      /\ ~answer.passed
                      /\ e \in limiter'.attempts
              /\ now > e.resetTime
                   => /\ answer.passed
                      /\ Entry(c, 1, now + windowMs) \in limiter'.attempts
                      /\ e \notin limiter'.attempts

C26_FixedWindowLimit == []C26_Inv /\ [][C26_Step]_vars

(* A client has been answered 429 within its window and, after the reset   *)
(* time, has been admitted with count 1.                                   *)
C26_Witness ==
  \E i, j \in 1..Len(limiter.served) :
    /\ i < j
    /\ limiter.served[i].client = limiter.served[j].client
    /\ limiter.served[i].status = 429
    /\ limiter.served[j].at > limiter.served[i].resetTime
    /\ limiter.served[j].passed
    /\ limiter.served[j].count = 1

(* C25: when an API request is answered 401 and the token refresh fails    *)
(* or no refresh token is stored, the user is redirected to the login      *)
(* page with the stored tokens cleared; the client does not stay           *)
(* authenticated with an unusable token.                                   *)
RefreshFailed(q) ==
  /\ client.request[q].status = 401
  /\ client.request[q].newToken = Null

C25_ExpiredSessionRedirects ==
  \A q \in ApiCalls :
    RefreshFailed(q) =>
      /\ client.location = "/login"
      /\ client.token = Null
      /\ client.refreshToken = Null
      /\ ~client.isAuthenticated

(* C29: at most one refresh request is in flight at any time; a            *)
(* refreshToken call that arrives while a refresh is pending starts none   *)
(* and gets the result of the pending one, the new token or null; once     *)
(* the refresh has settled and its caller continues, refreshPromise is     *)
(* cleared.                                                                *)
Pending == { k \in Callers : client.promise[k] = "pending" }

C29_Inv ==
  /\ Cardinality(Pending) <= 1
  /\ \A k \in Pending : client.refreshPromise = k
  /\ client.refresh.pc = "sent" => client.refresh.promise \in Pending

C29_Step ==
  /\ client.refreshPromise # NoPromise => client'.started = client.started
  /\ \A k \in Callers :
       (client.caller[k].pc = "awaitOther" /\ client'.caller[k].pc = "returned")
       => LET owner == client.caller[k].awaits
          IN /\ client'.caller[k].result = client.caller[owner].result
             /\ client'.caller[k].result =
                  IF client.promise[owner] = "fulfilled" THEN client.token
                  ELSE Null
  /\ \A k \in Callers :
       (client.caller[k].pc = "awaitOwn" /\ client'.caller[k].pc = "returned")
       => client'.refreshPromise = NoPromise

C29_SingleRefreshInFlight == []C29_Inv /\ [][C29_Step]_vars

(* A caller has joined a pending refresh and got its token, and after      *)
(* that a later call has started a second refresh.                         *)
C29_Witness ==
  /\ client.started = 2
  /\ \E k \in Callers :
       /\ client.caller[k].pc = "returned"
       /\ client.caller[k].awaits \notin {k, NoPromise}
       /\ client.caller[k].result # Null

(* C30: the response interceptor retries a request answered 401 at most    *)
(* once: no request is sent more than twice or refreshed more than once,   *)
(* and every request that was sent ends with a response or an error, even  *)
(* when the server keeps answering 401.                                    *)
C30_RetryAtMostOnce ==
  /\ [](\A q \in ApiCalls :
          /\ client.request[q].sends <= 2
          /\ client.request[q].refreshes <= 1)
  /\ \A q \in ApiCalls :
       (client.request[q].pc = "sent") ~> (client.request[q].pc = "done")

====
